---- MODULE Spec2Model ----
(***************************************************************************)
(* Model of WinDeklar/EditableScene.py: the editable scene (EditableFigure),*)
(* its items (SceneLine, SceneCorridor, SceneCircle, SceneRectangle), their *)
(* handles and the undo commands pushed on the QUndoStack.                 *)
(*                                                                         *)
(* Numbers.  Pixel coordinates (QPointF, QRectF, QLineF) are integers.     *)
(* Metre-space values, which live in item definitions, are fixed point:    *)
(* MeterUnit steps per metre.  The kernel's points at scale factor 1.0     *)
(* are pixel valued (x / 1.0 and x * 1.0 are exact).  All inputs are drawn *)
(* from grids on which the divisions and square roots below are exact.     *)
(***************************************************************************)
EXTENDS Integers, Sequences, FiniteSets, TLC

\* ------------------------------------------------------------------ bounds

\* Most commands the handlers push in one session.
MaxCmds == 2
\* Most items ever constructed (in the scene or removed from it).
MaxItems == 3
\* Most left-button presses on items in one session.
MaxPresses == 2
\* Most handle moves that change an item without a command, in one session.
MaxDirect == 1
\* wheel steps away from zoom 1.0, in the sessions that bound them
MaxWheel == 1

\* --------------------------------------------------------- program constants

\* EditableFigure.__init__(scale_factor=100)
ScaleFactor == 100
\* steps per metre of the fixed-point metre values
MeterUnit == 1000
\* SceneLine.contain_width
LineContainWidth == 10
\* distance_to_segment: "any big"
BigDistance == 999999

\* 1 / 0.0001, the precision of `abs(d2) < 0.0001` in distance_to_segment
SegmentPrecision == 10000

\* EditableFigure.__init__: zoom_factor 1.15, min_zoom 0.1 and max_zoom 10.0,
\* in units of 1/ZoomUnit
ZoomUnit == 10000
ZoomFactor == 11500
MinZoom == 1000
MaxZoom == 100000

Abs(x) == IF x < 0 THEN -x ELSE x

\* A local name for a value: Op applied to v.
With(v, Op(_)) == Op(v)

RECURSIVE SqrtBetween(_, _, _)
SqrtBetween(n, lo, hi) ==
    IF lo >= hi THEN lo
    ELSE LET mid == (lo + hi + 1) \div 2
         IN  IF mid * mid <= n THEN SqrtBetween(n, mid, hi)
                               ELSE SqrtBetween(n, lo, mid - 1)

\* math.sqrt on the perfect squares the inputs produce (floor elsewhere)
Sqrt(n) == IF n <= 0 THEN 0 ELSE SqrtBetween(n, 0, IF n > 46340 THEN 46340 ELSE n)

\* ----------------------------------------------------------- geometry kernel

scale(distance, scale_factor) ==
    IF scale_factor = 1 THEN distance
    ELSE (distance * scale_factor) \div MeterUnit

de_scale(distance, scale_factor) ==
    IF scale_factor = 1 THEN distance
    ELSE (distance * MeterUnit) \div scale_factor

point_to_pixel_point(point, scale_factor) ==
    <<scale(point[1], scale_factor), scale(point[2], scale_factor)>>

pixel_point_to_point(q_point, scale_factor, translate) ==
    <<de_scale(q_point[1] + translate[1], scale_factor),
      de_scale(q_point[2] + translate[2], scale_factor)>>

pixel_points_to_point(pixel_points) ==
    [i \in DOMAIN pixel_points |-> pixel_point_to_point(pixel_points[i], 1, <<0, 0>>)]

\* math.hypot(p1.x()-p2.x(), p1.y()-p2.y())
distance_in_pixels(p1, p2) ==
    Sqrt((p1[1] - p2[1]) * (p1[1] - p2[1]) + (p1[2] - p2[2]) * (p1[2] - p2[2]))

middle_pixel_point(p1, p2) == <<(p1[1] + p2[1]) \div 2, (p1[2] + p2[2]) \div 2>>

difference_pixel_point(p1, p2) == <<p1[1] - p2[1], p1[2] - p2[2]>>

translate_pixel_point(p, translation) == <<p[1] + translation[1], p[2] + translation[2]>>

\* distance_to_segment on coordinates counted in 1/unit of a pixel, as the
\* square of the distance in the same units: [sentinel, num, den], num/den
\* the square when sentinel is FALSE. d2 < 0.0001 is d2 * 10000 < unit * unit;
\* u = n / d2.
distance_to_segment(p1, p2, p3, unit) ==
    LET px == p2[1] - p1[1]
        py == p2[2] - p1[2]
        d2 == px * px + py * py
        n  == (p3[1] - p1[1]) * px + (p3[2] - p1[2]) * py
        l2 == (p1[1] - p3[1]) * (p1[1] - p3[1]) + (p1[2] - p3[2]) * (p1[2] - p3[2])
    IN  IF d2 * SegmentPrecision < unit * unit
        THEN [sentinel |-> FALSE, num |-> l2, den |-> 1]
        ELSE IF n < 0 \/ n > d2 THEN [sentinel |-> TRUE, num |-> 0, den |-> 1]
        ELSE [sentinel |-> FALSE, num |-> l2 * d2 - n * n, den |-> d2]

\* distance_to_segment on whole pixels
distance_to_segment_sq(p1, p2, p3) == distance_to_segment(p1, p2, p3, 1)

\* distance_to_segment(p1, p2, p3) < w
distance_to_segment_less(p1, p2, p3, w) ==
    LET d == distance_to_segment_sq(p1, p2, p3)
    IN  IF d.sentinel THEN BigDistance < w
        ELSE w > 0 /\ d.num < w * w * d.den

\* A project_point_to_segment that keeps the projection between p1 and p2
\* whatever in_segment says.
project_point_to_segment_clamped(p1, p2, p3, in_segment) ==
    LET px == p2[1] - p1[1]
        py == p2[2] - p1[2]
        d2 == px * px + py * py
        n0 == (p3[1] - p1[1]) * px + (p3[2] - p1[2]) * py
        n  == IF n0 > d2 THEN d2 ELSE IF n0 < 0 THEN 0 ELSE n0
    IN  IF d2 = 0 THEN p1
        ELSE <<p1[1] + (n * px) \div d2, p1[2] + (n * py) \div d2>>

project_point_to_segment(p1, p2, p3, in_segment) ==
    LET px == p2[1] - p1[1]
        py == p2[2] - p1[2]
        d2 == px * px + py * py
        n0 == (p3[1] - p1[1]) * px + (p3[2] - p1[2]) * py
        n  == IF in_segment
              THEN (IF n0 > d2 THEN d2 ELSE IF n0 < 0 THEN 0 ELSE n0)
              ELSE n0
    IN  IF d2 = 0 THEN p1
        ELSE <<p1[1] + (n * px) \div d2, p1[2] + (n * py) \div d2>>

project_pixel_point_to_segment(pp1, pp2, pp3, in_segment) ==
    LET ps == pixel_points_to_point(<<pp1, pp2, pp3>>)
    IN  project_point_to_segment(ps[1], ps[2], ps[3], in_segment)

relation_sign(x1, x2) == IF x1 < x2 THEN 1 ELSE IF x1 > x2 THEN -1 ELSE 0

\* precision 0.01 and 0.08 are below one pixel: equality on integers
similar_values(l1, l2) == Abs(l1 - l2) <= 0

\* near_zero(number, precision=0.001)
near_zero(number) == Abs(number) < 1

is_vertical_line(p1, p2) == near_zero(p1[1] - p2[1])

is_horizontal_line(p1, p2) == near_zero(p1[2] - p2[2])

\* n / s to the nearest whole number
RoundDiv(n, s) == (2 * n + s) \div (2 * s)

\* x1 + sign*d/sqrt(1 + a*a), a*(x2 - x1) + y1 with the slope a = ay/ax, each
\* to the nearest pixel: sqrt(1 + a*a) is sqrt(ax*ax + ay*ay)/|ax|, taken in
\* hundredths of a pixel
point_in_line_at_distance(ay, ax, point, d, sign) ==
    With(Sqrt((ax * ax + ay * ay) * 10000), LAMBDA s100 :
         <<point[1] + RoundDiv(sign * d * Abs(ax) * 100, s100),
           point[2] + RoundDiv(sign * relation_sign(0, ax) * d * ay * 100, s100)>>)

point_between_points_at_distance(p1, p2, d) ==
    LET x_sign == relation_sign(p1[1], p2[1])
    IN  IF similar_values(p1[2], p2[2]) THEN <<p1[1] + x_sign * d, p1[2]>>
        ELSE IF similar_values(p1[1], p2[1])
             THEN <<p1[1], p1[2] + relation_sign(p1[2], p2[2]) * d>>
        ELSE point_in_line_at_distance(p2[2] - p1[2], p2[1] - p1[1], p1, d, x_sign)

\* the slope a90 = -1/a of the perpendicular is -ax/ay
perpendicular_points_from_segment(p1, p2, d) ==
    IF is_horizontal_line(p1, p2) THEN << <<p2[1], p2[2] + d>>, <<p2[1], p2[2] - d>> >>
    ELSE IF is_vertical_line(p1, p2) THEN << <<p2[1] + d, p2[2]>>, <<p2[1] - d, p2[2]>> >>
    ELSE LET ax == p2[1] - p1[1]
             ay == p2[2] - p1[2]
         IN  << point_in_line_at_distance(-ax, ay, p2, d, -1),
                point_in_line_at_distance(-ax, ay, p2, d, 1) >>

\* returns p21, p22, p12, p11
rectangle_from_line(p1, p2, width) ==
    With(perpendicular_points_from_segment(p1, p2, width), LAMBDA a :
    With(perpendicular_points_from_segment(p2, p1, width), LAMBDA b :
         <<a[1], a[2], b[2], b[1]>>))

\* A parallel_segments that pairs each offset point at p1 with the offset
\* point of the other side at p2.
parallel_segments_crossed(p1, p2, distance) ==
    With(rectangle_from_line(p1, p2, distance), LAMBDA r :
         << <<r[3], r[1]>>, <<r[4], r[2]>> >>)

parallel_segments(p1, p2, distance) ==
    With(rectangle_from_line(p1, p2, distance), LAMBDA r :
         LET p21 == r[1]
             p22 == r[2]
             p11 == r[3]
             p12 == r[4]
         IN  << <<p11, p22>>, <<p12, p21>> >>)

get_point_at_t_pixels(pp1, pp2, num, den) ==
    <<pp1[1] + ((pp2[1] - pp1[1]) * num) \div den,
      pp1[2] + ((pp2[2] - pp1[2]) * num) \div den>>

\* ------------------------------------------------------------------- state

VARIABLES
    defs,         \* the definition mappings (dict objects), by identity
    items,        \* every SceneItem constructed so far, by identity
    scene,        \* the SceneItems in the QGraphicsScene, in stacking order
    handles,      \* the Handles in the QGraphicsScene, in stacking order
    grabbed,      \* index in handles of the handle holding the mouse, or 0
    undo_stack,   \* QUndoStack: the recorded commands
    undo_index,   \* QUndoStack.index(): commands below it are applied
    copy_buffer,  \* EditableFigure.copy_buffer: an item identity, or 0 (None)
    current_zoom, \* EditableFigure.current_zoom and the scale of the view's
                  \* transform, each as a power of zoom_factor
    last,         \* history: the last handler and the command it called
    pushed,       \* history: the commands pushed so far
    direct,       \* history: the changes of an item made without a command
    presses       \* history: the left-button presses on items so far

vars == <<defs, items, scene, handles, grabbed, undo_stack, undo_index,
          copy_buffer, current_zoom, last, pushed, direct, presses>>

\* ------------------------------------------------------------ dict helpers

\* dict.get(key, default)
Get(d, key, default) == IF key \in DOMAIN d THEN d[key] ELSE default

\* dict.update(other)
DictUpdate(d, other) ==
    [k \in (DOMAIN d) \cup (DOMAIN other) |-> IF k \in DOMAIN other THEN other[k] ELSE d[k]]

\* d[key] = value
DictSet(d, key, value) ==
    [k \in (DOMAIN d) \cup {key} |-> IF k = key THEN value ELSE d[k]]

\* ---------------------------------------------------------------- metadata

\* The items' metadata (editable_items_metadata.yaml): per type the required
\* and the editable properties, the constructor and, in the heap of
\* definitions, the identity of the default definition.
Metadata ==
    [line      |-> [required_properties |-> <<"start", "end">>,
                    editable_properties |-> <<"name", "color">>,
                    constructor |-> "SceneLine", default |-> 1],
     corridor  |-> [required_properties |-> <<"start", "end">>,
                    editable_properties |-> <<"name", "color">>,
                    constructor |-> "SceneCorridor", default |-> 2],
     circle    |-> [required_properties |-> <<"center", "radius">>,
                    editable_properties |-> <<"name", "color">>,
                    constructor |-> "SceneCircle", default |-> 3],
     rectangle |-> [required_properties |-> <<"center">>,
                    editable_properties |-> <<"name", "color">>,
                    constructor |-> "SceneRectangle", default |-> 4],
     polygon   |-> [required_properties |-> <<"center">>,
                    editable_properties |-> <<"name", "color">>,
                    constructor |-> "ScenePolygon"]]

\* the default definitions of the metadata, as the loader leaves them
DefaultDefs ==
    << [start |-> <<0, 0>>, end |-> <<400, 0>>, color |-> "blue"],
       [start |-> <<0, 0>>, end |-> <<0, 400>>, corridor_width |-> 200,
        show_borders |-> TRUE, color |-> "blue"],
       [center |-> <<0, 0>>, radius |-> 300, color |-> "blue"],
       [center |-> <<0, 0>>, width |-> 400, height |-> 200, rotation |-> 0,
        color |-> "blue"] >>

\* A lookup that answers an unknown type with the line's metadata.
get_metadata_for_type_line(item_type) ==
    IF item_type \in DOMAIN Metadata THEN Metadata[item_type] ELSE Metadata["line"]

get_metadata_for_type(item_type) ==
    IF item_type \in DOMAIN Metadata THEN Metadata[item_type] ELSE [none |-> TRUE]

MetadataIsNone(metadata) == "none" \in DOMAIN metadata

\* `value is None`, of a value that is a mapping or None
IsNone(value) == "none" \in DOMAIN value

\* The messages of a failure: the words of the format and its arguments;
\* '' is the empty tuple.
NoMsg == <<>>

\* '' when every required property is present, else the message about the
\* first one that is absent
check_must_have_properties(item_def, metadata) ==
    LET req == metadata.required_properties
        absent == {i \in DOMAIN req : req[i] \notin DOMAIN item_def}
    IN  IF absent = {} THEN NoMsg
        ELSE <<req[CHOOSE i \in absent : \A j \in absent : i <= j],
               "not present in", item_def, "ignored">>

\* ------------------------------------------------------------------- QRectF

Rect(x, y, w, h) == [x |-> x, y |-> y, w |-> w, h |-> h]

\* QRectF.center()
RectCenter(r) == <<r.x + r.w \div 2, r.y + r.h \div 2>>

\* QRectF.contains(QPointF)
RectContains(r, p) ==
    LET l  == IF r.w < 0 THEN r.x + r.w ELSE r.x
        rr == IF r.w < 0 THEN r.x ELSE r.x + r.w
        t  == IF r.h < 0 THEN r.y + r.h ELSE r.y
        b  == IF r.h < 0 THEN r.y ELSE r.y + r.h
    IN  /\ l # rr /\ t # b
        /\ p[1] >= l /\ p[1] <= rr
        /\ p[2] >= t /\ p[2] <= b

\* QTransform.rotate(degrees) applied to a point, for quarter turns
Rotate(p, degrees) ==
    LET q == (degrees \div 90) % 4
    IN  CASE q = 0 -> p
          [] q = 1 -> <<-p[2], p[1]>>
          [] q = 2 -> <<-p[1], -p[2]>>
          [] q = 3 -> <<p[2], -p[1]>>

\* -------------------------------------------------------------- scene items

\* QLineF()
NullLine == << <<0, 0>>, <<0, 0>> >>

\* SceneItem.update_state: the fields read from the definition
update_state(item, d) ==
    [item EXCEPT !.name  = Get(d, "name", ""),
                 !.type  = Get(d, "type", ""),
                 !.color = Get(d, "color", "None"),
                 !.alpha = Get(d, "alpha", 5),
                 !.width = scale(Get(d, "width", 10), item.scale_factor)]

\* SceneItem.__init__: the definition is kept by reference
SceneItem_init(cls, def_id, d) ==
    update_state([cls |-> cls, item_def |-> def_id, scale_factor |-> ScaleFactor,
                  pos |-> <<0, 0>>, name |-> "", type |-> "", color |-> "",
                  alpha |-> 0, width |-> 0], d)

\* get_circle(center_point, radius)
get_circle(center_point, radius) ==
    Rect(center_point[1] - radius, center_point[2] - radius, radius * 2, radius * 2)

p1(item) == item.line[1]

p2(item) == item.line[2]

\* SceneCorridor.get_borders_lines
get_borders_lines(item) ==
    With(pixel_points_to_point(<<p1(item), p2(item)>>), LAMBDA ps :
    With(parallel_segments(ps[1], ps[2], item.corridor_width \div 2), LAMBDA borders :
         [i \in 1..2 |-> <<point_to_pixel_point(borders[i][1], 1),
                           point_to_pixel_point(borders[i][2], 1)>>]))

\* SceneCorridor.update_borders
update_borders(item, d) ==
    IF ~Get(d, "show_borders", FALSE) THEN item
    ELSE With(get_borders_lines(item), LAMBDA lines :
              [item EXCEPT !.border1 = lines[1], !.border2 = lines[2]])

\* SceneLine.update_others (nothing) and SceneCorridor.update_others
update_others(item, d) ==
    IF item.cls = "SceneCorridor"
    THEN update_borders([item EXCEPT !.center_line = item.line], d)
    ELSE item

SceneLine_init(cls, def_id, d) ==
    With(SceneItem_init(cls, def_id, d), LAMBDA base :
         DictUpdate(base, [line |-> <<point_to_pixel_point(d["start"], base.scale_factor),
                                      point_to_pixel_point(d["end"], base.scale_factor)>>]))

SceneCorridor_init(def_id, d) ==
    With(SceneLine_init("SceneCorridor", def_id, d), LAMBDA base :
         update_borders(
             DictUpdate(base, [corridor_width |-> scale(Get(d, "corridor_width", MeterUnit),
                                                        base.scale_factor),
                               center_line |-> base.line,
                               border1 |-> NullLine, border2 |-> NullLine]), d))

SceneCircle_init(def_id, d) ==
    With(SceneItem_init("SceneCircle", def_id, d), LAMBDA base :
         DictUpdate(base, [circle |-> get_circle(point_to_pixel_point(d["center"],
                                                                      base.scale_factor),
                                                 scale(d["radius"], base.scale_factor))]))

\* get_rectangle(center, width, height, rotation): the rect is local, the item
\* sits at center and its transform turns by rotation around center
SceneRectangle_init(def_id, d) ==
    With(SceneItem_init("SceneRectangle", def_id, d), LAMBDA base :
         LET center == point_to_pixel_point(d["center"], base.scale_factor)
             w      == scale(Get(d, "width", MeterUnit), base.scale_factor)
             h      == scale(Get(d, "height", MeterUnit), base.scale_factor)
         IN  DictUpdate(base, [rectangle |-> Rect(-(w \div 2), -(h \div 2), w, h),
                               rect_pos |-> center,
                               rect_turn |-> Get(d, "rotation", 0),
                               border_width |-> Get(d, "border_width", 1)]))

\* QGraphicsItem.mapToScene / mapFromScene of the rectangle child
RectMapToScene(item, p) ==
    LET c == item.rect_pos
        r == Rotate(<<p[1] - c[1], p[2] - c[2]>>, item.rect_turn)
    IN  <<r[1] + c[1] + c[1], r[2] + c[2] + c[2]>>

RectMapFromScene(item, p) ==
    LET c == item.rect_pos
        r == Rotate(<<p[1] - c[1] - c[1], p[2] - c[2] - c[2]>>, 360 - item.rect_turn)
    IN  <<r[1] + c[1], r[2] + c[2]>>

center_pixel_point(item) ==
    CASE item.cls = "SceneCircle"    -> RectCenter(item.circle)
      [] item.cls = "SceneRectangle" -> RectMapToScene(item, RectCenter(item.rectangle))
      [] OTHER                       -> middle_pixel_point(p1(item), p2(item))

radius_pixels(item) == item.circle.w \div 2

length_in_pixels(item) == distance_in_pixels(p1(item), p2(item))

contain_width(item) ==
    IF item.cls = "SceneCorridor" THEN item.corridor_width ELSE LineContainWidth

\* A hit test that takes the circumference for a part of the circle.
contains_closed(item, point) ==
    distance_in_pixels(RectCenter(item.circle), point) <= item.circle.w \div 2

\* contains(point), per class; the circle compares hypot(...) < radius
contains(item, point) ==
    CASE item.cls = "SceneCircle" ->
           LET c == center_pixel_point(item)
               r == radius_pixels(item)
           IN  /\ r > 0
               /\ (c[1] - point[1]) * (c[1] - point[1])
                    + (c[2] - point[2]) * (c[2] - point[2]) < r * r
      [] item.cls = "SceneRectangle" ->
           RectContains(item.rectangle, RectMapFromScene(item, point))
      [] OTHER ->
           distance_to_segment_less(p1(item), p2(item), point, contain_width(item))

\* An update_line_end_point that takes every end point for the start.
update_line_end_point_start(item, is_start, new_end_point_pos, d) ==
    update_others([item EXCEPT !.line = <<new_end_point_pos, p2(item)>>], d)

\* SceneLine.update_line_end_point
update_line_end_point(item, is_start, new_end_point_pos, d) ==
    LET line == IF is_start THEN <<new_end_point_pos, p2(item)>>
                            ELSE <<p1(item), new_end_point_pos>>
    IN  update_others([item EXCEPT !.line = line], d)

\* translate(translation), per class
translate(item, translation, d) ==
    CASE item.cls = "SceneCircle" ->
           [item EXCEPT !.circle = Rect(item.circle.x + translation[1],
                                        item.circle.y + translation[2],
                                        item.circle.w, item.circle.h)]
      [] item.cls = "SceneRectangle" ->
           [item EXCEPT !.rectangle = Rect(item.rectangle.x + translation[1],
                                           item.rectangle.y + translation[2],
                                           item.rectangle.w, item.rectangle.h)]
      [] OTHER ->
           update_others([item EXCEPT !.line =
                              <<translate_pixel_point(p1(item), translation),
                                translate_pixel_point(p2(item), translation)>>], d)

\* SceneCircle.update_size
update_size(item, new_radius) ==
    LET center == center_pixel_point(item)
    IN  [item EXCEPT !.circle = Rect(center[1] - new_radius, center[2] - new_radius,
                                     new_radius * 2, new_radius * 2)]

\* An update_def_from_scene that moves the stored position by the item's
\* position each time it runs, instead of overwriting it.
update_def_from_scene_drift(item, d) ==
    CASE item.cls \in {"SceneCircle", "SceneRectangle"} ->
           DictUpdate(d, [center |-> translate_pixel_point(d.center,
                              pixel_point_to_point(center_pixel_point(item),
                                                   item.scale_factor, item.pos))])
      [] OTHER ->
           DictUpdate(d, [start |-> translate_pixel_point(d.start,
                              pixel_point_to_point(p2(item), item.scale_factor, item.pos))])

\* An update_def_from_scene that leaves the definition as it was loaded.
update_def_from_scene_stale(item, d) == d

\* update_def_from_scene, per class: the definition after the live geometry
\* is written into it (QGraphicsRectItem.rotation() is the rotation property,
\* which setTransform leaves at 0)
update_def_from_scene(item, d) ==
    CASE item.cls = "SceneCircle" ->
           DictUpdate(d, [center |-> pixel_point_to_point(center_pixel_point(item),
                                                          item.scale_factor, item.pos),
                          radius |-> de_scale(radius_pixels(item), item.scale_factor)])
      [] item.cls = "SceneRectangle" ->
           DictUpdate(d, [center   |-> pixel_point_to_point(center_pixel_point(item),
                                                            item.scale_factor, item.pos),
                          width    |-> de_scale(item.rectangle.w, item.scale_factor),
                          height   |-> de_scale(item.rectangle.h, item.scale_factor),
                          rotation |-> 0])
      [] OTHER ->
           DictUpdate(d, [start |-> pixel_point_to_point(p1(item), item.scale_factor, item.pos),
                          end   |-> pixel_point_to_point(p2(item), item.scale_factor, item.pos)])

\* ------------------------------------------------- the scene and its objects

\* The objects a handler works on: w.defs, w.items, w.scene, w.handles.
World == [defs |-> defs, items |-> items, scene |-> scene, handles |-> handles]

InScene(w, id) == \E i \in DOMAIN w.scene : w.scene[i] = id

\* QGraphicsScene.addItem: on top of the stacking order; an item that is in
\* the scene already stays where it is
SceneAdd(w, id) ==
    IF InScene(w, id) THEN w ELSE [w EXCEPT !.scene = Append(w.scene, id)]

\* A scene whose removeItem does nothing.
SceneRemove_none(w, id) == w

\* QGraphicsScene.removeItem
SceneRemove(w, id) ==
    [w EXCEPT !.scene = SelectSeq(w.scene, LAMBDA x : x # id)]

\* SceneItem.serialize: update_def_from_scene, then the definition itself
serialize(w, id) ==
    LET item == w.items[id]
    IN  [w EXCEPT !.defs[item.item_def] = update_def_from_scene(item, w.defs[item.item_def])]

\* SceneItem.update_properties; item_def.update(None) raises TypeError before
\* anything is changed
update_properties(w, id, new_properties) ==
    IF IsNone(new_properties) THEN w
    ELSE LET item == w.items[id]
             d    == DictUpdate(w.defs[item.item_def], new_properties)
         IN  [w EXCEPT !.defs[item.item_def] = d, !.items[id] = update_state(item, d)]

\* The constructor named by the metadata, applied to a definition.
Construct(constructor_name, def_id, d) ==
    CASE constructor_name = "SceneLine"      -> SceneLine_init("SceneLine", def_id, d)
      [] constructor_name = "SceneCorridor"  -> SceneCorridor_init(def_id, d)
      [] constructor_name = "SceneCircle"    -> SceneCircle_init(def_id, d)
      [] constructor_name = "SceneRectangle" -> SceneRectangle_init(def_id, d)

Constructors == {"SceneLine", "SceneCorridor", "SceneCircle", "SceneRectangle"}

\* SceneItem.create: [w, item, msg]; item is 0 for None
create(w, def_id) ==
    LET d == w.defs[def_id]
    IN  IF "type" \notin DOMAIN d
        THEN [w |-> w, item |-> 0, msg |-> <<"type", "not present in", d, "ignored">>]
        ELSE LET metadata == get_metadata_for_type(d["type"])
             IN  IF MetadataIsNone(metadata)
                 THEN [w |-> w, item |-> 0,
                       msg |-> <<d["type"], "type is not implemented">>]
                 ELSE IF check_must_have_properties(d, metadata) # NoMsg
                 THEN [w |-> w, item |-> 0,
                       msg |-> check_must_have_properties(d, metadata)]
                 ELSE IF metadata.constructor \notin Constructors
                 THEN [w |-> w, item |-> 0,
                       msg |-> <<metadata.constructor,
                                 "constructor name not implemented">>]
                 ELSE [w |-> [w EXCEPT !.items =
                                  Append(w.items, Construct(metadata.constructor, def_id, d))],
                       item |-> Len(w.items) + 1, msg |-> NoMsg]

\* SceneItem.clone: copy.deepcopy(self.serialize()) is a new definition
clone(w, id) ==
    With(serialize(w, id), LAMBDA w1 :
         create([w1 EXCEPT !.defs = Append(w1.defs, w1.defs[w1.items[id].item_def])],
                Len(w1.defs) + 1))

\* A remove_handles that spares every handle when one handle is to be spared.
remove_handles_spare(w, non_check_handle) ==
    IF non_check_handle = 0 THEN [w EXCEPT !.handles = <<>>] ELSE w

\* EditableFigure.remove_handles: every Handle but non_check_handle (an index
\* in w.handles, 0 for None) leaves the scene
remove_handles(w, non_check_handle) ==
    [w EXCEPT !.handles = IF non_check_handle = 0 THEN <<>>
                          ELSE <<w.handles[non_check_handle]>>]

\* EditableFigure.remove_item, for a SceneItem
remove_item(w, id) == SceneRemove(remove_handles(w, 0), id)

\* ---------------------------------------------------------------- commands

\* The part of the objects a command may change.
Snapshot(w) == [defs |-> w.defs, items |-> w.items, scene |-> w.scene]

NoSnapshot == [defs |-> <<>>, items |-> <<>>, scene |-> <<>>]

\* Each command keeps the fields its __init__ sets.  The rest is history:
\*   applied  the last call on it was redo()
\*   misused  redo() was called on it while applied, or undo() while not
\*   before   the objects before its latest redo()
\*   first    the objects after its first redo()
\*   since    what else changed the objects since its latest redo(): the kinds
\*            of the other commands called, "direct" for a change without one
\*   ever     the same, since its first redo()
Cmd(fields) ==
    DictUpdate(fields, [applied |-> FALSE, misused |-> FALSE, before |-> NoSnapshot,
                        first |-> NoSnapshot, since |-> {}, ever |-> {}])

AddItemCommand(item) == Cmd([kind |-> "AddItem", item |-> item])

RemoveItemCommand(item) == Cmd([kind |-> "RemoveItem", item |-> item])

TranslateCommand(item, new_pos) ==
    Cmd([kind |-> "Translate", item |-> item, new_pos |-> new_pos])

ChangeEndPointCommand(w, item, is_start, new_end_point_pos) ==
    Cmd([kind |-> "ChangeEndPoint", item |-> item, is_start |-> is_start,
         new_pos |-> new_end_point_pos,
         old_pos |-> IF is_start THEN p1(w.items[item]) ELSE p2(w.items[item])])

ChangeSizeCommand(item, new_size) ==
    Cmd([kind |-> "ChangeSize", item |-> item, new_size |-> new_size])

ChangePropertiesCommand(w, item, changed_properties) ==
    Cmd([kind |-> "ChangeProperties", item |-> item,
         new_properties |-> changed_properties,
         old_properties |-> w.defs[w.items[item].item_def]])

CopyPasteCommand(item, pos) ==
    Cmd([kind |-> "CopyPaste", item |-> item, new_item |-> 0, pos |-> pos])

ItemDef(w, id) == w.defs[w.items[id].item_def]

\* redo() of each command class: [w, c], the objects and the command after it
CommandRedo(c, w) ==
    CASE c.kind = "AddItem" -> [w |-> SceneAdd(w, c.item), c |-> c]
      [] c.kind = "RemoveItem" -> [w |-> remove_item(w, c.item), c |-> c]
      [] c.kind = "Translate" ->
           [w |-> [w EXCEPT !.items[c.item] =
                       translate(w.items[c.item], c.new_pos, ItemDef(w, c.item))],
            c |-> c]
      [] c.kind = "ChangeEndPoint" ->
           [w |-> [w EXCEPT !.items[c.item] =
                       update_line_end_point(w.items[c.item], c.is_start, c.new_pos,
                                             ItemDef(w, c.item))],
            c |-> c]
      [] c.kind = "ChangeSize" ->
           [w |-> [w EXCEPT !.items[c.item] = update_size(w.items[c.item], c.new_size)],
            c |-> c]
      [] c.kind = "ChangeProperties" ->
           [w |-> update_properties(w, c.item, c.new_properties), c |-> c]
      [] c.kind = "CopyPaste" ->
           With(clone(w, c.item), LAMBDA made :
                LET w1  == made.w
                    new == made.item
                    w2  == [w1 EXCEPT !.items[new] =
                                translate(w1.items[new], c.pos, ItemDef(w1, new))]
                IN  [w |-> SceneAdd(w2, new), c |-> [c EXCEPT !.new_item = new]])

\* An undo() of TranslateCommand that negates the x of the translation only.
CommandUndo_mirror(c, w) ==
    IF c.kind # "Translate" THEN [w |-> w, c |-> c]
    ELSE [w |-> [w EXCEPT !.items[c.item] =
                    translate(w.items[c.item], <<-c.new_pos[1], c.new_pos[2]>>,
                              ItemDef(w, c.item))],
          c |-> c]

\* An undo() of CopyPasteCommand that removes the item that was copied.
CommandUndo_source(c, w) ==
    IF c.kind # "CopyPaste" THEN [w |-> w, c |-> c]
    ELSE [w |-> SceneRemove(w, c.item), c |-> c]

\* undo() of each command class
CommandUndo(c, w) ==
    CASE c.kind = "AddItem" -> [w |-> SceneRemove(w, c.item), c |-> c]
      [] c.kind = "RemoveItem" -> [w |-> SceneAdd(w, c.item), c |-> c]
      [] c.kind = "Translate" ->
           [w |-> [w EXCEPT !.items[c.item] =
                       translate(w.items[c.item], <<-c.new_pos[1], -c.new_pos[2]>>,
                                 ItemDef(w, c.item))],
            c |-> c]
      [] c.kind = "ChangeEndPoint" ->
           [w |-> [w EXCEPT !.items[c.item] =
                       update_line_end_point(w.items[c.item], c.is_start, c.old_pos,
                                             ItemDef(w, c.item))],
            c |-> c]
      [] c.kind = "ChangeSize" ->
           [w |-> [w EXCEPT !.items[c.item] = update_size(w.items[c.item], -c.new_size)],
            c |-> c]
      [] c.kind = "ChangeProperties" ->
           [w |-> update_properties(w, c.item, c.old_properties), c |-> c]
      [] c.kind = "CopyPaste" ->
           IF c.new_item = 0 THEN [w |-> w, c |-> c]
           ELSE [w |-> SceneRemove(w, c.new_item), c |-> c]

\* The items a redo() of the command constructs.
RedoAllocates(c) == IF c.kind = "CopyPaste" THEN 1 ELSE 0

\* --------------------------------------------------------------- QUndoStack

\* History: something else changed the objects under a recorded command.
Note(c, what) == [c EXCEPT !.since = @ \cup {what}, !.ever = @ \cup {what}]

NoteAll(stack, what) == [i \in DOMAIN stack |-> Note(stack[i], what)]

\* A push that keeps the undone commands above the one it records.
QUndoStack_push_keep(st, w, cmd) ==
    With(CommandRedo(cmd, w), LAMBDA r :
         [w |-> r.w,
          stack |-> Append(st.stack,
                           [r.c EXCEPT !.applied = TRUE, !.before = Snapshot(w),
                                       !.first = Snapshot(r.w)]),
          index |-> st.index + 1])

\* An undo() that leaves the index on the command it has undone.
QUndoStack_undo_stay(st, w) ==
    IF st.index = 0 THEN [w |-> w, stack |-> st.stack, index |-> st.index]
    ELSE With(CommandUndo(st.stack[st.index], w), LAMBDA r :
              [w |-> r.w,
               stack |-> [st.stack EXCEPT ![st.index] =
                             [r.c EXCEPT !.applied = FALSE,
                                         !.misused = @ \/ ~st.stack[st.index].applied]],
               index |-> st.index])

\* A redo() that, at the end of the stack, calls redo() of the last command
\* again.
QUndoStack_redo_again(st, w) ==
    With(IF st.index < Len(st.stack) THEN st.index + 1 ELSE st.index, LAMBDA i :
         IF i = 0 THEN [w |-> w, stack |-> st.stack, index |-> st.index]
         ELSE With(CommandRedo(st.stack[i], w), LAMBDA r :
                   [w |-> r.w,
                    stack |-> [st.stack EXCEPT ![i] =
                                  [r.c EXCEPT !.applied = TRUE, !.before = Snapshot(w),
                                              !.since = {}]],
                    index |-> i]))

\* QUndoStack.push(cmd): cmd.redo(), the undone commands are deleted, cmd is
\* recorded and the index moves past it.  st is [stack, index].
QUndoStack_push(st, w, cmd) ==
    With(CommandRedo(cmd, w), LAMBDA r :
         LET c1   == [r.c EXCEPT !.applied = TRUE, !.misused = @ \/ cmd.applied,
                                 !.before = Snapshot(w), !.first = Snapshot(r.w),
                                 !.since = {}]
             kept == NoteAll(SubSeq(st.stack, 1, st.index), cmd.kind)
         IN  [w |-> r.w, stack |-> Append(kept, c1), index |-> st.index + 1])

\* QUndoStack.undo(): nothing at index 0; else the command below the index is
\* undone and the index moves below it
QUndoStack_undo(st, w) ==
    IF st.index = 0 THEN [w |-> w, stack |-> st.stack, index |-> st.index]
    ELSE With(CommandUndo(st.stack[st.index], w), LAMBDA r :
              LET c  == st.stack[st.index]
                  c1 == [r.c EXCEPT !.applied = FALSE, !.misused = @ \/ ~c.applied]
              IN  [w |-> r.w,
                   stack |-> [i \in DOMAIN st.stack |->
                                 IF i = st.index THEN c1
                                 ELSE IF i < st.index THEN Note(st.stack[i], c.kind)
                                 ELSE st.stack[i]],
                   index |-> st.index - 1])

\* QUndoStack.redo(): nothing at the end; else the command at the index is
\* redone and the index moves past it
QUndoStack_redo(st, w) ==
    IF st.index = Len(st.stack) THEN [w |-> w, stack |-> st.stack, index |-> st.index]
    ELSE With(CommandRedo(st.stack[st.index + 1], w), LAMBDA r :
              LET c  == st.stack[st.index + 1]
                  c1 == [r.c EXCEPT !.applied = TRUE, !.misused = @ \/ c.applied,
                                    !.before = Snapshot(w), !.since = {}]
              IN  [w |-> r.w,
                   stack |-> [i \in DOMAIN st.stack |->
                                 IF i = st.index + 1 THEN c1
                                 ELSE IF i <= st.index THEN Note(st.stack[i], c.kind)
                                 ELSE st.stack[i]],
                   index |-> st.index + 1])

Stack == [stack |-> undo_stack, index |-> undo_index]

\* ------------------------------------------------------------------ handles

\* made_at keeps where the handle's child was put when the handle was made
Handle(kind, parent, is_start, anchor) ==
    [kind |-> kind, parent |-> parent, is_start |-> is_start,
     pos |-> <<0, 0>>, anchor |-> anchor, made_at |-> anchor]

\* ChangeEndPointHandle / RotateHandle.ordered_end_points
ordered_end_points(item, is_start) ==
    IF is_start THEN <<p2(item), p1(item)>> ELSE <<p1(item), p2(item)>>

\* anchor is polygon.last(), the tip of get_arrow_head: its end_point
ChangeEndPointHandle(id, item, is_start) ==
    Handle("ChangeEndPoint", id, is_start, ordered_end_points(item, is_start)[2])

\* anchor is circle.pos(): move_to_parent puts it at t = percentage = 0.8
RotateHandle(id, item, is_start) ==
    LET pp == ordered_end_points(item, is_start)
    IN  Handle("Rotate", id, is_start, get_point_at_t_pixels(pp[1], pp[2], 8, 10))

\* anchor is circle.pos(): center + (radius, 0)
ChangeSizeHandle(id, item) ==
    LET center == center_pixel_point(item)
    IN  Handle("ChangeSize", id, FALSE, <<center[1] + radius_pixels(item), center[2]>>)

\* anchor is the centre of the handle's square
MoveHandle(id, item) == Handle("Move", id, FALSE, center_pixel_point(item))

\* get_handles, per class
get_handles(id, item) ==
    CASE item.cls = "SceneCircle"    -> <<ChangeSizeHandle(id, item), MoveHandle(id, item)>>
      [] item.cls = "SceneRectangle" -> <<MoveHandle(id, item)>>
      [] OTHER -> <<ChangeEndPointHandle(id, item, TRUE), ChangeEndPointHandle(id, item, FALSE),
                    RotateHandle(id, item, TRUE), RotateHandle(id, item, FALSE),
                    MoveHandle(id, item)>>

\* SceneItem.set_handles: each Handle.__init__ adds itself to the scene
set_handles(w, id) == [w EXCEPT !.handles = @ \o get_handles(id, w.items[id])]

\* EditableFigure.get_item_in_position: scene.items() is topmost first.
\* 0 for None.  Pointer positions are taken off the handles' glyphs.
RECURSIVE TopmostAt(_, _, _)
TopmostAt(w, i, pos) ==
    IF i = 0 THEN 0
    ELSE IF contains(w.items[w.scene[i]], pos) THEN w.scene[i]
    ELSE TopmostAt(w, i - 1, pos)

get_item_in_position(w, pos) == TopmostAt(w, Len(w.scene), pos)

\* ------------------------------------------------------------------- inputs

\* The definitions a provider loads with add_items (metres, fixed point).
LineDef == [type |-> "line", start |-> <<0, 0>>, end |-> <<400, 0>>, color |-> "green"]

CorridorDef ==
    [type |-> "corridor", start |-> <<600, 0>>, end |-> <<600, 400>>,
     corridor_width |-> 200, show_borders |-> TRUE, color |-> "green"]

CircleDef == [type |-> "circle", center |-> <<0, -500>>, radius |-> 300, name |-> "c1"]

RectangleDef ==
    [type |-> "rectangle", center |-> <<-600, 0>>, width |-> 400, height |-> 200,
     rotation |-> 90, color |-> "green"]

\* what a provider hands to add_items: the definitions, each under 'item',
\* in the group 'items'
ItemsDef(item_defs) == [items |-> [i \in DOMAIN item_defs |-> [item |-> item_defs[i]]]]

Batches == { ItemsDef(<<LineDef, CircleDef>>), ItemsDef(<<CorridorDef, RectangleDef>>) }

\* Scene positions of the pointer: on the line, in the circle, in the
\* corridor, in the rectangle.
PointerPositions == { <<20, 0>>, <<0, -50>>, <<60, 20>>, <<-120, 60>> }

\* Scene positions of the cursor at Ctrl+C: the pointer positions and one
\* with no item under it.
CursorPositions == PointerPositions \cup { <<200, 200>> }

\* Where the context menu adds and the pointer pastes.
DropPositions == { <<20, 20>> }

\* The changes of a handle's position in one mouse move.
MoveDeltas == { <<10, 0>>, <<0, -10>> }

SizeDeltas == { <<10, 0>>, <<-20, 0>> }

EndPointDeltas == { <<10, 10>>, <<-10, -10>> }

\* Moves of a rotate handle, which starts at 32 pixels from the pivot: off the
\* line, and along the line onto the pivot
RotateDeltas == { <<-32, 32>>, <<32, -32>>, <<-8, 32>>, <<-32, 0>>, <<0, -32>> }

DragDeltas(kind) ==
    CASE kind = "Move"           -> MoveDeltas
      [] kind = "ChangeSize"     -> SizeDeltas
      [] kind = "ChangeEndPoint" -> EndPointDeltas
      [] kind = "Rotate"         -> RotateDeltas

\* The definitions handed to SceneItem.create: each type of the metadata,
\* a type without metadata ("arc") or no type at all (""), with any of the
\* required fields.
CreateFields ==
    [start |-> <<0, 0>>, end |-> <<400, 0>>, center |-> <<0, -500>>, radius |-> 300]

CreateTypes == DOMAIN Metadata \cup {"arc", ""}

CreateInputs ==
    { [k \in ks \cup (IF t = "" THEN {} ELSE {"type"}) |->
          IF k = "type" THEN t ELSE CreateFields[k]] :
      ks \in SUBSET DOMAIN CreateFields, t \in CreateTypes }

\* The entries of a provider's items_def: two that are well formed, one per
\* way of failing, and one that is not under 'item'.
LoadEntries ==
    { [item |-> LineDef],
      [item |-> CircleDef],
      [item |-> [start |-> <<0, 0>>, end |-> <<400, 0>>]],
      [item |-> [type |-> "arc", center |-> <<0, 0>>, radius |-> 300]],
      [item |-> [type |-> "circle", center |-> <<0, 0>>]],
      [item |-> [type |-> "polygon", center |-> <<0, 0>>]],
      [element |-> LineDef] }

LoadBatches ==
    { [items |-> entries] :
      entries \in UNION { [1..n -> LoadEntries] : n \in 0..MaxItems } }
    \cup { [group |-> << [item |-> LineDef] >>] }

\* What the property dialog returns: the changed keys and their new values.
DialogResults == { [color |-> "red"], [name |-> "n1"] }

\* What the property dialog returns when it is cancelled: None.
DialogNone == [none |-> TRUE]

\* ---------------------------------------------------------------------- Init

\* EditableFigure.add_item: [w, msg]; the definition under 'item' becomes
\* an object of the heap
add_item(w, item_def) ==
    IF "item" \notin DOMAIN item_def
    THEN [w |-> w,
          msg |-> <<"Invalid items definition format", "item", "not present in", item_def>>]
    ELSE With(create([w EXCEPT !.defs = Append(@, item_def.item)], Len(w.defs) + 1),
              LAMBDA made :
              IF made.item = 0 THEN [w |-> made.w, msg |-> made.msg]
              ELSE [w |-> SceneAdd(made.w, made.item), msg |-> NoMsg])

\* A loop that stops at the first definition that fails.
RECURSIVE add_items_from_abort(_, _, _)
add_items_from_abort(w, entries, i) ==
    IF i > Len(entries) THEN [w |-> w, fails_msg |-> <<>>]
    ELSE With(add_item(w, entries[i]), LAMBDA one :
              IF one.msg # NoMsg THEN [w |-> one.w, fails_msg |-> <<one.msg>>]
              ELSE add_items_from_abort(one.w, entries, i + 1))

\* the loop of EditableFigure.add_items over items_def['items'], from entry i
RECURSIVE add_items_from(_, _, _)
add_items_from(w, entries, i) ==
    IF i > Len(entries) THEN [w |-> w, fails_msg |-> <<>>]
    ELSE With(add_item(w, entries[i]), LAMBDA one :
         With(add_items_from(one.w, entries, i + 1), LAMBDA rest :
              [w |-> rest.w,
               fails_msg |-> IF one.msg # NoMsg THEN <<one.msg>> \o rest.fails_msg
                             ELSE rest.fails_msg]))

\* EditableFigure.add_items: [w, fails_msg]
add_items(w, items_def) ==
    IF "items" \notin DOMAIN items_def
    THEN [w |-> w,
          fails_msg |-> << <<"Invalid items definition format", "group", "items",
                             "not present in", items_def>> >>]
    ELSE add_items_from(w, items_def.items, 1)

EmptyWorld == [defs |-> DefaultDefs, items |-> <<>>, scene |-> <<>>, handles |-> <<>>]

\* The view after __init__ and the provider's update_view.
InitWith(batch) ==
    \E w \in {add_items(EmptyWorld, batch).w} :
        /\ defs = w.defs
        /\ items = w.items
        /\ scene = w.scene
        /\ handles = w.handles
        /\ grabbed = 0
        /\ undo_stack = <<>>
        /\ undo_index = 0
        /\ copy_buffer = 0
        /\ current_zoom = [zoom |-> 0, view |-> 0]
        /\ last = [op |-> "init", ran |-> 0]
        /\ pushed = 0
        /\ direct = 0
        /\ presses = 0

Init == \E batch \in Batches : InitWith(batch)

\* ------------------------------------------------------------------ handlers

Commit(w) ==
    /\ defs' = w.defs
    /\ items' = w.items
    /\ scene' = w.scene
    /\ handles' = w.handles

CommitStack(r) ==
    /\ Commit(r.w)
    /\ undo_stack' = r.stack
    /\ undo_index' = r.index

\* A handle that leaves the scene loses the mouse.
KeepGrab(w) == IF w.handles = <<>> THEN 0 ELSE grabbed

\* EditableFigure.add_ui_command
add_ui_command(w, command) == QUndoStack_push(Stack, w, command)

\* EditableFigure.mousePressEvent, left button on an item
mousePressEvent(pos) ==
    \E id \in {get_item_in_position(World, pos)} :
        /\ grabbed = 0
        /\ id # 0
        /\ presses < MaxPresses
        /\ Commit(set_handles(World, id))
        /\ last' = [op |-> "press", ran |-> 0]
        /\ presses' = presses + 1
        /\ UNCHANGED <<grabbed, undo_stack, undo_index, copy_buffer, current_zoom,
                       pushed, direct>>

\* The left button goes down on a handle: the handle holds the mouse.
HandleMousePress(h) ==
    /\ grabbed = 0
    /\ h \in DOMAIN handles
    /\ grabbed' = h
    /\ last' = [op |-> "grab", ran |-> 0]
    /\ UNCHANGED <<defs, items, scene, handles, undo_stack, undo_index,
                   copy_buffer, current_zoom, pushed, direct, presses>>

\* update_parent(new_position), per handle class, after the other handles
\* were removed (the handle is w.handles[1]): [w, stack, index]
update_parent(w, new_position) ==
    LET h    == w.handles[1]
        item == w.items[h.parent]
    IN  CASE h.kind = "Move" ->
               add_ui_command(w, TranslateCommand(h.parent,
                                     difference_pixel_point(new_position, h.pos)))
          [] h.kind = "ChangeSize" ->
               LET cpos == translate_pixel_point(h.anchor, new_position)
                   w1   == [w EXCEPT !.handles[1].anchor = cpos]
                   size == distance_in_pixels(center_pixel_point(item), cpos)
               IN  add_ui_command(w1, ChangeSizeCommand(h.parent, size))
          [] h.kind = "ChangeEndPoint" ->
               LET vertex == translate_pixel_point(h.anchor, new_position)
                   value  == project_pixel_point_to_segment(p1(item), p2(item),
                                                            vertex, FALSE)
               IN  add_ui_command(w, ChangeEndPointCommand(w, h.parent, h.is_start, value))
          [] h.kind = "Rotate" ->
               LET length == length_in_pixels(item)
                   pp1    == IF h.is_start THEN p2(item) ELSE p1(item)
                   pp2    == translate_pixel_point(h.anchor, new_position)
                   ps     == pixel_points_to_point(<<pp1, pp2>>)
                   p3     == point_between_points_at_distance(ps[1], ps[2], length)
                   pp3    == point_to_pixel_point(p3, 1)
               IN  [w |-> [w EXCEPT !.items[h.parent] =
                               update_line_end_point(item, h.is_start, pp3,
                                                     ItemDef(w, h.parent))],
                    stack |-> NoteAll(undo_stack, "direct"),
                    index |-> undo_index]

\* Handle.itemChange(ItemPositionChange, value): the mouse moves the handle
\* it holds
itemChange(delta) ==
    /\ grabbed # 0
    /\ \E h \in {handles[grabbed]} :
           /\ delta \in DragDeltas(h.kind)
           /\ IF h.kind = "Rotate"
              THEN direct < MaxDirect /\ direct' = direct + 1 /\ pushed' = pushed
              ELSE pushed < MaxCmds /\ pushed' = pushed + 1 /\ direct' = direct
           /\ \E value \in {translate_pixel_point(h.pos, delta)} :
              \E r \in {update_parent(remove_handles(World, grabbed), value)} :
                  /\ CommitStack([r EXCEPT !.w.handles[1].pos = value])
                  /\ last' = [op |-> "drag",
                              ran |-> IF h.kind = "Rotate" THEN 0 ELSE r.index]
           /\ presses' = presses
    /\ grabbed' = 1
    /\ UNCHANGED <<copy_buffer, current_zoom>>

\* An end_resizing that spares the handle that calls it.
end_resizing_keep(w, h) == remove_handles(w, h)

\* SceneItem.end_resizing, called by the handle at index h
end_resizing(w, h) == remove_handles(w, 0)

\* Handle.mouseReleaseEvent: parent_item.end_resizing()
mouseReleaseEvent ==
    /\ grabbed # 0
    /\ Commit(end_resizing(World, grabbed))
    /\ grabbed' = 0
    /\ last' = [op |-> "release", ran |-> 0]
    /\ UNCHANGED <<undo_stack, undo_index, copy_buffer, current_zoom, pushed, direct, presses>>

\* get_default_item: [w, def, raised]. `'default' not in metadata` raises
\* TypeError when metadata is None; def 0 is the new empty dict returned when
\* there is no default; else the default definition itself, its type set.
get_default_item(w, item_type, metadata) ==
    IF MetadataIsNone(metadata) THEN [w |-> w, def |-> 0, raised |-> "TypeError"]
    ELSE IF "default" \notin DOMAIN metadata THEN [w |-> w, def |-> 0, raised |-> ""]
    ELSE [w |-> [w EXCEPT !.defs[metadata.default] = DictSet(@, "type", item_type)],
          def |-> metadata.default, raised |-> ""]

\* EditableFigure.add_item_from_ui(item_type, position). The empty dict of
\* get_default_item is an object of the heap only while create looks at it.
add_item_from_ui(item_type, position) ==
    /\ grabbed = 0
    /\ \E got \in {get_default_item(World, item_type, get_metadata_for_type(item_type))} :
       IF got.raised # ""
       THEN /\ last' = [op |-> "add", ran |-> 0, item_type |-> item_type,
                        raised |-> got.raised]
            /\ UNCHANGED <<defs, items, scene, handles, undo_stack, undo_index, pushed>>
       ELSE \E made \in {IF got.def = 0
                          THEN create([got.w EXCEPT !.defs = Append(@, <<>>)],
                                      Len(got.w.defs) + 1)
                          ELSE create(got.w, got.def)} :
            IF made.item = 0
            THEN /\ last' = [op |-> "add", ran |-> 0, item_type |-> item_type]
                 /\ UNCHANGED <<defs, items, scene, handles, undo_stack, undo_index,
                                pushed>>
            ELSE /\ Len(items) < MaxItems
                 /\ pushed < MaxCmds
                 /\ \E r \in {add_ui_command(
                                 [made.w EXCEPT !.items[made.item] =
                                     translate(made.w.items[made.item], position,
                                               ItemDef(made.w, made.item))],
                                 AddItemCommand(made.item))} :
                    /\ CommitStack([r EXCEPT !.stack =
                                       NoteAll(SubSeq(@, 1, Len(@) - 1), "direct")
                                       \o <<r.stack[Len(r.stack)]>>])
                    /\ last' = [op |-> "add", ran |-> r.index, item_type |-> item_type]
                 /\ pushed' = pushed + 1
    /\ UNCHANGED <<grabbed, copy_buffer, current_zoom, direct, presses>>

\* EditableFigure.delete_item_from_ui, from the context menu's "Delete"
delete_item_from_ui(pos) ==
    \E id \in {get_item_in_position(World, pos)} :
        /\ grabbed = 0
        /\ id # 0
        /\ pushed < MaxCmds
        /\ \E r \in {add_ui_command(World, RemoveItemCommand(id))} :
           /\ CommitStack(r)
           /\ last' = [op |-> "delete", ran |-> r.index]
        /\ pushed' = pushed + 1
        /\ UNCHANGED <<grabbed, copy_buffer, current_zoom, direct, presses>>

\* edit_item_from_ui and SceneItem.edit, from the context menu's "Edit": the
\* dialog returns changed. The TypeError of update_properties(None) is raised
\* in the command's redo(), which QUndoStack.push calls; the command is
\* recorded all the same.
edit(pos, changed) ==
    \E id \in {get_item_in_position(World, pos)} :
        /\ grabbed = 0
        /\ id # 0
        /\ pushed < MaxCmds
        /\ \E r \in {add_ui_command(World, ChangePropertiesCommand(World, id, changed))} :
           /\ CommitStack(r)
           /\ last' = IF IsNone(changed)
                      THEN [op |-> "edit", ran |-> r.index, changed |-> changed,
                            raised |-> "TypeError"]
                      ELSE [op |-> "edit", ran |-> r.index, changed |-> changed]
        /\ pushed' = pushed + 1
        /\ UNCHANGED <<grabbed, copy_buffer, current_zoom, direct, presses>>

\* EditableFigure.on_copy (Ctrl+C) and copy_item
on_copy(pos) ==
    /\ copy_buffer' = get_item_in_position(World, pos)
    /\ last' = [op |-> "copy", ran |-> 0]
    /\ UNCHANGED <<defs, items, scene, handles, grabbed, undo_stack, undo_index,
                   current_zoom, pushed, direct, presses>>

\* A paste that empties the copy buffer.
paste_item_clear(scene_pos) ==
    /\ copy_buffer # 0
    /\ Len(items) < MaxItems
    /\ pushed < MaxCmds
    /\ \E r \in {add_ui_command(World, CopyPasteCommand(copy_buffer, scene_pos))} :
        /\ CommitStack(r)
        /\ last' = [op |-> "paste", ran |-> r.index]
        /\ pushed' = pushed + 1
    /\ copy_buffer' = 0
    /\ UNCHANGED <<grabbed, current_zoom, direct, presses>>

\* A paste that, with an empty copy buffer, drops the undone commands.
paste_item_drop(scene_pos) ==
    /\ IF copy_buffer = 0
       THEN /\ last' = [op |-> "paste", ran |-> 0]
            /\ undo_stack' = SubSeq(undo_stack, 1, undo_index)
            /\ UNCHANGED <<defs, items, scene, handles, undo_index, pushed>>
       ELSE /\ Len(items) < MaxItems
            /\ pushed < MaxCmds
            /\ \E r \in {add_ui_command(World, CopyPasteCommand(copy_buffer, scene_pos))} :
                /\ CommitStack(r)
                /\ last' = [op |-> "paste", ran |-> r.index]
                /\ pushed' = pushed + 1
    /\ UNCHANGED <<grabbed, copy_buffer, current_zoom, direct, presses>>

\* EditableFigure.on_paste (Ctrl+V) and paste_item
paste_item(scene_pos) ==
    /\ IF copy_buffer = 0
       THEN /\ last' = [op |-> "paste", ran |-> 0]
            /\ UNCHANGED <<defs, items, scene, handles, undo_stack, undo_index, pushed>>
       ELSE /\ Len(items) < MaxItems
            /\ pushed < MaxCmds
            /\ \E r \in {add_ui_command(World, CopyPasteCommand(copy_buffer, scene_pos))} :
                /\ CommitStack(r)
                /\ last' = [op |-> "paste", ran |-> r.index]
                /\ pushed' = pushed + 1
    /\ UNCHANGED <<grabbed, copy_buffer, current_zoom, direct, presses>>

\* current_zoom after steps multiplications by zoom_factor (divisions, when
\* steps is negative), in units of 1/ZoomUnit and rounded down. The float of
\* the program is within 1e-12 of the power and this value within 1%, the
\* bounds are more than 6% away from every power, so the comparisons with
\* the bounds come out as in the program.
RECURSIVE ZoomValue(_)
ZoomValue(steps) ==
    IF steps = 0 THEN ZoomUnit
    ELSE IF steps > 0 THEN (ZoomValue(steps - 1) * ZoomFactor) \div ZoomUnit
    ELSE (ZoomValue(steps + 1) * ZoomUnit) \div ZoomFactor

\* A zoom_in that scales the view whatever current_zoom is.
zoom_in_unbounded ==
    /\ current_zoom.zoom < 20
    /\ current_zoom' = [zoom |-> current_zoom.zoom + 1, view |-> current_zoom.view + 1]
    /\ last' = [op |-> "zoom_in", ran |-> 0]
    /\ UNCHANGED <<defs, items, scene, handles, grabbed, undo_stack, undo_index,
                   copy_buffer, pushed, direct, presses>>

\* A zoom_in that rescales the items with the view.
zoom_in_items ==
    /\ ZoomValue(current_zoom.zoom + 1) < MaxZoom
    /\ current_zoom' = [zoom |-> current_zoom.zoom + 1, view |-> current_zoom.view + 1]
    /\ items' = [i \in DOMAIN items |->
                    [items[i] EXCEPT !.scale_factor = (@ * ZoomFactor) \div ZoomUnit]]
    /\ last' = [op |-> "zoom_in", ran |-> 0]
    /\ UNCHANGED <<defs, scene, handles, grabbed, undo_stack, undo_index,
                   copy_buffer, pushed, direct, presses>>

\* EditableFigure.zoom_in, from wheelEvent with a positive angle
zoom_in ==
    /\ current_zoom' =
           IF (ZoomValue(current_zoom.zoom) * ZoomFactor) \div ZoomUnit < MaxZoom
           THEN [zoom |-> current_zoom.zoom + 1, view |-> current_zoom.view + 1]
           ELSE current_zoom
    /\ last' = [op |-> "zoom_in", ran |-> 0]
    /\ UNCHANGED <<defs, items, scene, handles, grabbed, undo_stack, undo_index,
                   copy_buffer, pushed, direct, presses>>

\* EditableFigure.zoom_out, from wheelEvent with any other angle
zoom_out ==
    /\ current_zoom' =
           IF (ZoomValue(current_zoom.zoom) * ZoomUnit) \div ZoomFactor > MinZoom
           THEN [zoom |-> current_zoom.zoom - 1, view |-> current_zoom.view - 1]
           ELSE current_zoom
    /\ last' = [op |-> "zoom_out", ran |-> 0]
    /\ UNCHANGED <<defs, items, scene, handles, grabbed, undo_stack, undo_index,
                   copy_buffer, pushed, direct, presses>>

\* item.serialize() on the item id, as EditableFigure.get_items calls it for
\* each item: the definition is updated in place and returned. `nth` counts
\* the calls on the same item that follow each other with nothing in between.
serialize_call(id) ==
    /\ id \in DOMAIN items
    /\ grabbed = 0
    /\ \E w \in {serialize(World, id)} :
           /\ Commit(w)
           /\ last' = [op |-> "serialize", ran |-> 0, item |-> id,
                       returned |-> w.defs[w.items[id].item_def],
                       nth |-> IF last.op = "serialize" /\ last.item = id THEN 2 ELSE 1]
    /\ UNCHANGED <<grabbed, undo_stack, undo_index, copy_buffer, current_zoom,
                   pushed, direct, presses>>

\* EditableFigure.undo (Ctrl+Z)
undo ==
    \E r \in {QUndoStack_undo(Stack, World)} :
        /\ CommitStack(r)
        /\ last' = [op |-> "undo", ran |-> IF undo_index = 0 THEN 0 ELSE undo_index]
        /\ grabbed' = KeepGrab(r.w)
        /\ UNCHANGED <<copy_buffer, current_zoom, pushed, direct, presses>>

\* EditableFigure.redo (Ctrl+Y)
redo ==
    /\ undo_index < Len(undo_stack) =>
           Len(items) + RedoAllocates(undo_stack[undo_index + 1]) <= MaxItems
    /\ \E r \in {QUndoStack_redo(Stack, World)} :
        /\ CommitStack(r)
        /\ last' = [op |-> "redo",
                    ran |-> IF undo_index = Len(undo_stack) THEN 0 ELSE undo_index + 1]
        /\ grabbed' = KeepGrab(r.w)
        /\ UNCHANGED <<copy_buffer, current_zoom, pushed, direct, presses>>

Next ==
    \/ \E pos \in PointerPositions : mousePressEvent(pos)
    \/ \E h \in DOMAIN handles : HandleMousePress(h)
    \/ \E delta \in MoveDeltas \cup SizeDeltas \cup EndPointDeltas \cup RotateDeltas :
          itemChange(delta)
    \/ mouseReleaseEvent
    \/ \E t \in DOMAIN Metadata, pos \in DropPositions : add_item_from_ui(t, pos)
    \/ \E pos \in PointerPositions : delete_item_from_ui(pos)
    \/ \E pos \in PointerPositions, changed \in DialogResults : edit(pos, changed)
    \/ \E pos \in PointerPositions : on_copy(pos)
    \/ \E pos \in DropPositions : paste_item(pos)
    \/ zoom_in
    \/ zoom_out
    \/ \E id \in DOMAIN items : serialize_call(id)
    \/ undo
    \/ redo

Spec == Init /\ [][Next]_vars

\* ------------------------------------------------------------------ sessions

\* The left button goes down on a handle of one of the given classes.
GrabHandle(kinds) ==
    \E h \in DOMAIN handles : handles[h].kind \in kinds /\ HandleMousePress(h)

Press == \E pos \in PointerPositions : mousePressEvent(pos)

Drag ==
    \E delta \in MoveDeltas \cup SizeDeltas \cup EndPointDeltas \cup RotateDeltas :
        itemChange(delta)

\* A scene loaded with one item of any type.
InitOneItem ==
    \E d \in {LineDef, CorridorDef, CircleDef, RectangleDef} : InitWith(ItemsDef(<<d>>))

InitLines == \E d \in {LineDef, CorridorDef} : InitWith(ItemsDef(<<d>>))

InitCircle == InitWith(ItemsDef(<<CircleDef>>))

\* Mouse only: presses on items, drags of any handle, releases.
NextGesture ==
    \/ Press
    \/ GrabHandle({"Move", "ChangeSize", "ChangeEndPoint", "Rotate"})
    \/ Drag
    \/ mouseReleaseEvent

SpecGesture == Init /\ [][NextGesture]_vars

\* Items are moved by their move handles, with Ctrl+Z and Ctrl+Y.
NextMove ==
    \/ Press
    \/ GrabHandle({"Move"})
    \/ Drag
    \/ mouseReleaseEvent
    \/ undo
    \/ redo

SpecMove == InitOneItem /\ [][NextMove]_vars

\* The end points of a line or a corridor are dragged, with Ctrl+Z and Ctrl+Y.
NextEndPoint ==
    \/ Press
    \/ GrabHandle({"ChangeEndPoint"})
    \/ Drag
    \/ mouseReleaseEvent
    \/ undo
    \/ redo

SpecEndPoint == InitLines /\ [][NextEndPoint]_vars

\* A circle is resized by its size handle, with Ctrl+Z and Ctrl+Y.
NextResize ==
    \/ Press
    \/ GrabHandle({"ChangeSize"})
    \/ Drag
    \/ mouseReleaseEvent
    \/ undo
    \/ redo

SpecResize == InitCircle /\ [][NextResize]_vars

\* Items are added and deleted from the context menu, with Ctrl+Z and Ctrl+Y.
NextAdd ==
    \/ \E t \in DOMAIN Metadata, pos \in DropPositions : add_item_from_ui(t, pos)
    \/ \E pos \in PointerPositions : delete_item_from_ui(pos)
    \/ undo
    \/ redo

SpecAdd == Init /\ [][NextAdd]_vars

\* Items are edited from the context menu, with Ctrl+Z and Ctrl+Y.
NextEdit ==
    \/ \E pos \in PointerPositions, changed \in DialogResults : edit(pos, changed)
    \/ undo
    \/ redo

SpecEdit == Init /\ [][NextEdit]_vars

\* A provider's call of SceneItem.create on a definition
create_call(item_def) ==
    /\ last.op = "init"
    /\ \E made \in {create([World EXCEPT !.defs = Append(@, item_def)], Len(defs) + 1)} :
        /\ Commit(made.w)
        /\ last' = [op |-> "create", ran |-> 0, item_def |-> item_def,
                    item |-> made.item, msg |-> made.msg]
    /\ UNCHANGED <<grabbed, undo_stack, undo_index, copy_buffer, current_zoom,
                   pushed, direct, presses>>

\* A provider's call of EditableFigure.add_items
add_items_call(items_def) ==
    /\ last.op = "init"
    /\ \E r \in {add_items(World, items_def)} :
        /\ Commit(r.w)
        /\ last' = [op |-> "add_items", ran |-> 0, items_def |-> items_def,
                    fails_msg |-> r.fails_msg]
    /\ UNCHANGED <<grabbed, undo_stack, undo_index, copy_buffer, current_zoom,
                   pushed, direct, presses>>

\* One call of a provider on the empty view.
NextLoad ==
    \/ \E item_def \in CreateInputs : create_call(item_def)
    \/ \E items_def \in LoadBatches : add_items_call(items_def)

SpecLoad == InitWith(ItemsDef(<<>>)) /\ [][NextLoad]_vars

\* add_item_from_ui called with any type name, with undo and redo.
NextAddAny ==
    \/ \E t \in DOMAIN Metadata \cup {"arc"}, pos \in DropPositions :
          add_item_from_ui(t, pos)
    \/ undo
    \/ redo

SpecAddAny == InitOneItem /\ [][NextAddAny]_vars

\* Copy and paste of one loaded item, with undo and redo.
NextPaste ==
    \/ \E pos \in CursorPositions : on_copy(pos)
    \/ \E pos \in DropPositions : paste_item(pos)
    \/ undo
    \/ redo

SpecPaste == InitOneItem /\ [][NextPaste]_vars

\* The keyboard, the wheel and the context menu, on a view with one circle:
\* Ctrl+C on the circle or on nothing, lines added, the wheel turned at most
\* MaxWheel steps away from zoom 1.0.
NextCopy ==
    \/ \E pos \in {<<0, -50>>, <<200, 200>>} : on_copy(pos)
    \/ \E pos \in DropPositions : paste_item(pos)
    \/ \E pos \in DropPositions : add_item_from_ui("line", pos)
    \/ delete_item_from_ui(<<0, -50>>)
    \/ (current_zoom.zoom < MaxWheel /\ zoom_in)
    \/ (current_zoom.zoom > -MaxWheel /\ zoom_out)
    \/ undo
    \/ redo

SpecCopy == InitCircle /\ [][NextCopy]_vars

\* The wheel, and items added from the context menu at any zoom, on a view
\* with one circle.
NextZoom ==
    \/ zoom_in
    \/ zoom_out
    \/ \E t \in DOMAIN Metadata, pos \in DropPositions : add_item_from_ui(t, pos)
    \/ \E pos \in CursorPositions : on_copy(pos)

SpecZoom == InitCircle /\ [][NextZoom]_vars

\* One item of any type is dragged by its handles and serialized between the
\* gestures.
NextSerialize ==
    \/ Press
    \/ GrabHandle({"Move", "ChangeSize", "ChangeEndPoint", "Rotate"})
    \/ Drag
    \/ mouseReleaseEvent
    \/ \E id \in DOMAIN items : serialize_call(id)

SpecSerialize == InitOneItem /\ [][NextSerialize]_vars

\* Valid definitions of every type, whole pixels at scale factor 100.
RoundTripInputs ==
    LET ends == { <<s, e>> \in { <<0, 0>>, <<-200, 100>> } \X
                               { <<400, 0>>, <<0, 300>>, <<310, -250>> } : TRUE }
    IN  { [type |-> "line", start |-> se[1], end |-> se[2]] : se \in ends }
        \cup { [type |-> "corridor", start |-> se[1], end |-> se[2],
                corridor_width |-> 200] : se \in ends }
        \cup { [type |-> "circle", center |-> c, radius |-> r] :
                   c \in { <<0, 0>>, <<0, -500>>, <<200, 300>> }, r \in { 50, 300 } }
        \cup { [type |-> "rectangle", center |-> c, width |-> wh[1], height |-> wh[2],
                rotation |-> a] :
                   c \in { <<0, 0>>, <<-600, 0>>, <<200, 300>> },
                   wh \in { <<400, 200>>, <<100, 100>> },
                   a \in { 0, 90, 180, 270 } }

\* A scene loaded with one valid definition, then saved.
InitRoundTrip == \E d \in RoundTripInputs : InitWith(ItemsDef(<<d>>))

NextRoundTrip == \E id \in DOMAIN items : serialize_call(id)

SpecRoundTrip == InitRoundTrip /\ [][NextRoundTrip]_vars

\* Segments handed to the geometry functions, with the unit their coordinates
\* count: whole pixels, or thousandths of a pixel for end points that nearly
\* coincide.
Segments ==
    { [unit |-> 1, p1 |-> s[1], p2 |-> s[2]] :
          s \in { << <<0, 0>>, <<10, 0>> >>, << <<10, 0>>, <<0, 0>> >>,
                  << <<0, 0>>, <<0, 10>> >>, << <<3, 6>>, <<3, -2>> >>,
                  << <<-5, 2>>, <<7, 2>> >>, << <<0, 0>>, <<8, 6>> >>,
                  << <<4, 4>>, <<4, 4>> >> } }
    \cup { [unit |-> 1000, p1 |-> s[1], p2 |-> s[2]] :
          s \in { << <<0, 0>>, <<5, 0>> >>, << <<0, 0>>, <<3, 4>> >>,
                  << <<0, 0>>, <<6, 8>> >>, << <<0, 0>>, <<0, 0>> >> } }

SegmentPoints == { -4, 0, 3, 5, 8, 10, 14 } \X { -3, 0, 2, 4, 6, 10 }

SegmentDistances == { 1, 2, 5 }

\* A segment is chosen; nothing is in the view.
InitGeometry ==
    \E s \in Segments :
        /\ defs = EmptyWorld.defs
        /\ items = <<>>
        /\ scene = <<>>
        /\ handles = <<>>
        /\ grabbed = 0
        /\ undo_stack = <<>>
        /\ undo_index = 0
        /\ copy_buffer = 0
        /\ current_zoom = [zoom |-> 0, view |-> 0]
        /\ last = [op |-> "segment", ran |-> 0, unit |-> s.unit, p1 |-> s.p1, p2 |-> s.p2]
        /\ pushed = 0
        /\ direct = 0
        /\ presses = 0

\* distance_to_segment(p1, p2, p3) on the chosen segment
distance_to_segment_call(p3) ==
    /\ last.op \in {"segment", "distance_to_segment", "parallel_segments"}
    /\ last' = [op |-> "distance_to_segment", ran |-> 0, unit |-> last.unit,
                p1 |-> last.p1, p2 |-> last.p2, p3 |-> p3,
                d |-> distance_to_segment(last.p1, last.p2, p3, last.unit)]
    /\ UNCHANGED <<defs, items, scene, handles, grabbed, undo_stack, undo_index,
                   copy_buffer, current_zoom, pushed, direct, presses>>

\* parallel_segments(p1, p2, distance) on the chosen segment, in whole pixels
parallel_segments_call(distance) ==
    /\ last.op \in {"segment", "distance_to_segment", "parallel_segments"}
    /\ last.unit = 1
    /\ last' = [op |-> "parallel_segments", ran |-> 0, unit |-> last.unit,
                p1 |-> last.p1, p2 |-> last.p2, distance |-> distance,
                segments |-> parallel_segments(last.p1, last.p2, distance)]
    /\ UNCHANGED <<defs, items, scene, handles, grabbed, undo_stack, undo_index,
                   copy_buffer, current_zoom, pushed, direct, presses>>

NextGeometry ==
    \/ \E p3 \in SegmentPoints : distance_to_segment_call(p3)
    \/ \E distance \in SegmentDistances : parallel_segments_call(distance)

SpecGeometry == InitGeometry /\ [][NextGeometry]_vars

\* A circle is moved and resized by its handles.
SpecCircle == InitCircle /\ [][NextGesture]_vars

\* Items are added from the context menu, clicked and deleted, with Ctrl+Z
\* and Ctrl+Y.
NextAddClick ==
    \/ \E t \in {"line", "circle"}, pos \in DropPositions : add_item_from_ui(t, pos)
    \/ \E pos \in PointerPositions \cup DropPositions : mousePressEvent(pos)
    \/ \E pos \in PointerPositions \cup DropPositions : delete_item_from_ui(pos)
    \/ undo
    \/ redo

SpecAddClick == InitCircle /\ [][NextAddClick]_vars

\* A corridor definition that does not set show_borders.
CorridorPlainDef ==
    [type |-> "corridor", start |-> <<600, 0>>, end |-> <<600, 400>>,
     corridor_width |-> 200, color |-> "green"]

\* A corridor, with or without show_borders, is dragged by its handles.
InitCorridor == \E d \in {CorridorDef, CorridorPlainDef} : InitWith(ItemsDef(<<d>>))

SpecCorridor == InitCorridor /\ [][NextGesture]_vars

\* An edit session in which the dialog may be cancelled.
NextCancel ==
    \/ \E pos \in PointerPositions, changed \in DialogResults \cup {DialogNone} :
          edit(pos, changed)
    \/ undo
    \/ redo

SpecCancel == Init /\ [][NextCancel]_vars

\* A paste session in which the copied item is rotated between the undo and
\* the redo; the Rotate handle pushes no command.
NextReplay ==
    \/ \E pos \in PointerPositions : on_copy(pos)
    \/ \E pos \in DropPositions : paste_item(pos)
    \/ Press
    \/ GrabHandle({"Rotate"})
    \/ Drag
    \/ mouseReleaseEvent
    \/ undo
    \/ redo

SpecReplay == InitLines /\ [][NextReplay]_vars

\* ------------------------------------------------------------------- claims

\* serialize() of an item: its definition with the live geometry written in.
Serialized(w, id) == update_def_from_scene(w.items[id], ItemDef(w, id))

\* The handlers that push a command.
PushOps == {"drag", "add", "delete", "edit", "paste"}

\* The last handler called a method of the command of the given class that
\* is at undo_stack[last.ran].
LastRan(op, kind) ==
    /\ last.op \in op
    /\ last.ran # 0
    /\ undo_stack[last.ran].kind = kind

\* C1: a ChangeSizeCommand's redo() and then its undo() leave a circle of
\* radius r > 0 with the centre and the radius it had before the redo().
C1_ResizeUndoRestoresCircle ==
    (/\ LastRan({"undo"}, "ChangeSize")
     /\ undo_stack[last.ran].since = {}
     /\ radius_pixels(undo_stack[last.ran].before.items[undo_stack[last.ran].item]) > 0)
    => LET c == undo_stack[last.ran]
       IN  /\ center_pixel_point(items[c.item]) = center_pixel_point(c.before.items[c.item])
           /\ radius_pixels(items[c.item]) = radius_pixels(c.before.items[c.item])

\* C2: a ChangePropertiesCommand's redo() and then its undo() leave the
\* item's definition equal, key for key, to the one before the redo(): a key
\* the redo() added is gone.
C2_EditUndoRestoresDefinition ==
    (LastRan({"undo"}, "ChangeProperties") /\ undo_stack[last.ran].since = {})
    => LET c == undo_stack[last.ran]
       IN  ItemDef(World, c.item) = ItemDef(c.before, c.item)

\* C3: for each of the four shape classes, when a TranslateCommand's undo()
\* returns and only translations (redone, then undone) came between its redo()
\* and this undo(), the shape has the pixel geometry and the serialized
\* definition it had before the redo(): k redos and then k undos are the
\* identity.
C3_TranslateUndoRestores ==
    (LastRan({"undo"}, "Translate") /\ undo_stack[last.ran].since \subseteq {"Translate"})
    => LET c == undo_stack[last.ran]
       IN  /\ items[c.item] = c.before.items[c.item]
           /\ Serialized(World, c.item) = Serialized(c.before, c.item)

\* Two translations of a corridor were done and both are undone.
C3_Reached ==
    /\ LastRan({"undo"}, "Translate")
    /\ "Translate" \in undo_stack[last.ran].since
    /\ items[undo_stack[last.ran].item].cls = "SceneCorridor"
    /\ undo_index = 0

\* The end point a ChangeEndPointCommand does not select.
OtherEndPoint(c, item) == IF c.is_start THEN p2(item) ELSE p1(item)

SelectedEndPoint(c, item) == IF c.is_start THEN p1(item) ELSE p2(item)

\* C4: a ChangeEndPointCommand that runs in the state it was constructed in
\* leaves the end point it does not select where it was, on redo() and on
\* undo(), and its undo() puts both end points of the line back where they
\* were before the redo().
C4_EndPointUndoRestores ==
    \A kind \in {"ChangeEndPoint"} :
        /\ (/\ LastRan({"drag", "redo"}, kind)
            /\ SelectedEndPoint(undo_stack[last.ran],
                   undo_stack[last.ran].before.items[undo_stack[last.ran].item])
                 = undo_stack[last.ran].old_pos)
           => LET c == undo_stack[last.ran]
              IN  /\ OtherEndPoint(c, items[c.item])
                       = OtherEndPoint(c, c.before.items[c.item])
                  /\ SelectedEndPoint(c, items[c.item]) = c.new_pos
        /\ (/\ LastRan({"undo"}, kind)
            /\ undo_stack[last.ran].since \subseteq {kind}
            /\ SelectedEndPoint(undo_stack[last.ran],
                   undo_stack[last.ran].before.items[undo_stack[last.ran].item])
                 = undo_stack[last.ran].old_pos)
           => LET c == undo_stack[last.ran]
              IN  items[c.item].line = c.before.items[c.item].line

\* The end of a line or corridor was dragged away and the drag is undone.
C4_Reached ==
    /\ LastRan({"undo"}, "ChangeEndPoint")
    /\ undo_stack[last.ran].since = {}
    /\ ~undo_stack[last.ran].is_start
    /\ undo_stack[last.ran].new_pos # undo_stack[last.ran].old_pos

\* C5: after the push of an AddItemCommand its shape is in the scene, after
\* its undo() the shape is not, and after the redo() that follows the same
\* shape is in the scene again with the serialized definition it had after
\* the push.
C5_AddItemUndoRedo ==
    /\ LastRan({"add"}, "AddItem") => InScene(World, undo_stack[last.ran].item)
    /\ LastRan({"undo"}, "AddItem") => ~InScene(World, undo_stack[last.ran].item)
    /\ LastRan({"redo"}, "AddItem")
       => LET c == undo_stack[last.ran]
          IN  /\ InScene(World, c.item)
              /\ Serialized(World, c.item) = Serialized(c.first, c.item)

\* An added item was taken away by undo and put back by redo.
C5_Reached ==
    /\ LastRan({"redo"}, "AddItem")
    /\ undo_stack[last.ran].ever = {}
    /\ InScene(World, undo_stack[last.ran].item)

\* The fields of a command its __init__ sets.
Plain(c) == [k \in DOMAIN c \ {"applied", "misused", "before", "first", "since", "ever"}
               |-> c[k]]

\* C6: a push calls the redo() of the new command once, at once, and deletes
\* every command that was undone: the commands below the index stay, the new
\* one is the last, and a redo after the push calls no command.
C6_PushStep ==
    pushed' = pushed + 1
    => /\ undo_index' = undo_index + 1
       /\ Len(undo_stack') = undo_index'
       /\ \A i \in 1..undo_index : Plain(undo_stack'[i]) = Plain(undo_stack[i])
       /\ LET c == undo_stack'[undo_index']
          IN  /\ c.applied
              /\ ~c.misused
              /\ c.first = Snapshot(World')
       /\ QUndoStack_redo([stack |-> undo_stack', index |-> undo_index'], World')
            = [w |-> World', stack |-> undo_stack', index |-> undo_index']

C6_PushRunsRedoAndDropsUndone == [][C6_PushStep]_vars

\* A command was pushed over an undone one, which is gone.
C6_Reached ==
    /\ last.op \in PushOps
    /\ last.ran # 0
    /\ pushed = 2
    /\ Len(undo_stack) = 1

\* C7: the index of the undo stack stays between 0 and the number of recorded
\* commands; undo at 0 and redo at the end call no command and change nothing.
C7_IdleStep ==
    (\/ last'.op = "undo" /\ undo_index = 0
     \/ last'.op = "redo" /\ undo_index = Len(undo_stack))
    => UNCHANGED <<defs, items, scene, handles, undo_stack, undo_index>>

C7_IndexInRange == [](undo_index \in 0..Len(undo_stack)) /\ [][C7_IdleStep]_vars

\* Redo was asked at the end of a stack that records a command.
C7_Reached ==
    /\ last.op = "redo"
    /\ last.ran = 0
    /\ undo_index = Len(undo_stack)
    /\ undo_index > 0

\* C8: on every recorded command the calls of redo() and undo() alternate,
\* the first being a redo(): it is applied exactly when it is below the index
\* and was never called out of turn.
C8_RedoUndoAlternate ==
    \A i \in DOMAIN undo_stack :
        /\ ~undo_stack[i].misused
        /\ undo_stack[i].applied <=> i <= undo_index

\* A command was redone, undone and redone.
C8_Reached ==
    /\ last.op = "redo"
    /\ last.ran # 0
    /\ undo_stack[last.ran].applied
    /\ undo_index < Len(undo_stack)

\* C9: the handles in the scene are all of one shape.
C9_HandlesOfOneShape ==
    \A i, j \in DOMAIN handles : handles[i].parent = handles[j].parent

\* C10: when the mouse is released on a handle, no handle is left in the
\* scene.
C10_NoHandleAfterRelease == last.op = "release" => handles = <<>>

\* Two items had handles, one was dragged and the mouse was released.
C10_Reached ==
    /\ last.op = "release"
    /\ presses = 2
    /\ pushed + direct > 0

\* C11: a drag step that changes the parent shape, on a handle of any kind,
\* changes it only by pushing one command: the stack grows by one command,
\* which is the one just executed.
C11_DragStep ==
    (last'.op = "drag" /\ items' # items) =>
        /\ Len(undo_stack') = undo_index + 1
        /\ undo_index' = undo_index + 1
        /\ pushed' = pushed + 1

C11_DragPushesCommand == [][C11_DragStep]_vars

\* The view as add_items leaves it, before any event.
Loaded(batch) == add_items(EmptyWorld, batch).w

\* C12: after a drag gesture on a handle (n position updates, then release),
\* undoing as many times as commands were pushed leaves the parent shape with
\* the geometry and the serialized definition it had before the drag started.
\* Here the shape is the circle and every command ever pushed is undone.
C12_UndoGestureRestores ==
    (/\ last.op = "undo"
     /\ undo_index = 0
     /\ pushed > 0
     /\ Len(undo_stack) = pushed
     /\ direct = 0
     /\ grabbed = 0
     /\ handles = <<>>)
    => /\ items[1] = Loaded(ItemsDef(<<CircleDef>>)).items[1]
       /\ Serialized(World, 1) = Serialized(Loaded(ItemsDef(<<CircleDef>>)), 1)

\* C13 as stated: the copy buffer changes only on a copy that selects a
\* shape, so that once it holds a shape it never becomes empty again.
C13_BufferStep ==
    /\ copy_buffer' # copy_buffer => (last'.op = "copy" /\ copy_buffer' # 0)
    /\ copy_buffer # 0 => copy_buffer' # 0

C13_CopyStep == copy_buffer' # copy_buffer => last'.op = "copy"

C14_PasteUndoRemovesCopy ==
    LastRan({"undo"}, "CopyPaste")
    => LET c == undo_stack[last.ran]
       IN  /\ c.new_item = Len(c.before.items) + 1
           /\ ~InScene(World, c.new_item)
           /\ InScene(c.before, c.item) => InScene(World, c.item)
           /\ scene = c.before.scene
           /\ \A id \in DOMAIN c.before.items : items[id] = c.before.items[id]

\* the paste undone was redone before, or was not the first paste
C14_Reached ==
    /\ LastRan({"undo"}, "CopyPaste")
    /\ undo_stack[last.ran].new_item > 2
    /\ scene # <<>>

\* C15: after a paste at scene position P the new item is at P: its
\* reference point (the middle of a line, the centre of a circle or of a
\* rectangle) is P, wherever the copied item is.
C15_PastedAtDropPosition ==
    LastRan({"paste"}, "CopyPaste")
    => LET c == undo_stack[last.ran]
       IN  center_pixel_point(items[c.new_item]) = c.pos

\* C16: whatever the wheel does from current_zoom = 1.0, current_zoom stays
\* within [min_zoom, max_zoom], and a step that would cross a bound leaves
\* current_zoom and the view's transform as they are.
C16_ZoomStep ==
    /\ (last'.op = "zoom_in" /\ ZoomValue(current_zoom.zoom + 1) > MaxZoom)
       => current_zoom' = current_zoom
    /\ (last'.op = "zoom_out" /\ ZoomValue(current_zoom.zoom - 1) < MinZoom)
       => current_zoom' = current_zoom

C16_ZoomWithinBounds ==
    /\ [](/\ ZoomValue(current_zoom.zoom) >= MinZoom
          /\ ZoomValue(current_zoom.zoom) <= MaxZoom
          /\ current_zoom.view = current_zoom.zoom)
    /\ [][C16_ZoomStep]_vars

\* the wheel has zoomed in to the last step below max_zoom
C16_Reached ==
    /\ last.op = "zoom_in"
    /\ ZoomValue(current_zoom.zoom + 1) > MaxZoom

\* C17: a zoom step changes the zoom state only: the items (their pixel
\* geometry and stored scale factor), their definitions, the scene, the undo
\* stack and the copy buffer stay; every item keeps the scale factor of the
\* view's construction, and two items made from the same definition at the
\* same place have the same pixel geometry, whatever the zoom was.
C17_ZoomStep ==
    last'.op \in {"zoom_in", "zoom_out"}
    => UNCHANGED <<defs, items, scene, handles, undo_stack, undo_index, copy_buffer>>

C17_ZoomLeavesItems ==
    /\ [](\A i \in DOMAIN items :
             /\ items[i].scale_factor = ScaleFactor
             /\ \A j \in DOMAIN items :
                    items[i].item_def = items[j].item_def => items[i] = items[j])
    /\ [][C17_ZoomStep]_vars

\* an item was added after zooming, from the definition of an earlier one,
\* with a shape in the copy buffer
C17_Reached ==
    /\ last.op = "add"
    /\ last.ran # 0
    /\ current_zoom.zoom # 0
    /\ copy_buffer # 0
    /\ \E i \in DOMAIN items : \E j \in DOMAIN items :
           i # j /\ items[i].item_def = items[j].item_def

\* A definition is well formed: it has a type, the type has metadata, every
\* required property of the type is present and its constructor exists.
HasRequired(item_def) ==
    \A i \in DOMAIN Metadata[item_def["type"]].required_properties :
        Metadata[item_def["type"]].required_properties[i] \in DOMAIN item_def

WellFormed(item_def) ==
    /\ "type" \in DOMAIN item_def
    /\ item_def["type"] \in DOMAIN Metadata
    /\ HasRequired(item_def)
    /\ Metadata[item_def["type"]].constructor \in Constructors

\* C18: SceneItem.create returns no item and a message that is not empty,
\* and adds nothing to the scene, when the definition has no type, a type
\* without metadata, a required property missing or a constructor that is
\* not implemented; otherwise it returns an item of the definition and the
\* empty message.
C18_CreateValidates ==
    last.op = "create"
    => /\ scene = <<>>
       /\ IF WellFormed(last.item_def)
          THEN /\ last.msg = NoMsg
               /\ last.item \in DOMAIN items
               /\ items[last.item].type = last.item_def["type"]
               /\ defs[items[last.item].item_def] = last.item_def
          ELSE /\ last.msg # NoMsg
               /\ last.item = 0
               /\ items = <<>>

\* create refused a definition that has every required property, for its
\* constructor
C18_Reached ==
    /\ last.op = "create"
    /\ last.item = 0
    /\ "type" \in DOMAIN last.item_def
    /\ last.item_def["type"] = "polygon"
    /\ "center" \in DOMAIN last.item_def

\* The entries of a batch that are under 'item' and well formed, and the
\* others, each in batch order.
Accepted(entries) ==
    SelectSeq(entries, LAMBDA e : "item" \in DOMAIN e /\ WellFormed(e.item))

Refused(entries) ==
    SelectSeq(entries, LAMBDA e : ~("item" \in DOMAIN e /\ WellFormed(e.item)))

\* What a message of add_item is about: the entry, the definition, the type
\* or the constructor it names.
Subject(e) ==
    IF "item" \notin DOMAIN e THEN <<"item", e>>
    ELSE IF "type" \notin DOMAIN e.item THEN <<"type", e.item>>
    ELSE IF e.item["type"] \notin DOMAIN Metadata THEN <<e.item["type"]>>
    ELSE IF ~HasRequired(e.item) THEN <<"property", e.item>>
    ELSE <<Metadata[e.item["type"]].constructor>>

Names(msg) ==
    IF msg[1] = "Invalid items definition format" THEN <<msg[2], msg[4]>>
    ELSE IF Len(msg) = 2 THEN <<msg[1]>>
    ELSE IF msg[1] = "type" THEN <<"type", msg[3]>>
    ELSE <<"property", msg[3]>>

\* C19: add_items never stops at a failure: it returns one message for each
\* entry that is not well formed, in batch order, and adds every well formed
\* definition to the scene, before or after a failure; without the group
\* 'items' it returns one message and adds nothing.
C19_BatchCollectsFailures ==
    last.op = "add_items"
    => IF "items" \notin DOMAIN last.items_def
       THEN Len(last.fails_msg) = 1 /\ scene = <<>>
       ELSE /\ Len(last.fails_msg) = Len(Refused(last.items_def.items))
            /\ Len(scene) = Len(Accepted(last.items_def.items))
            /\ \A k \in DOMAIN last.fails_msg :
                   /\ last.fails_msg[k] # NoMsg
                   /\ Names(last.fails_msg[k]) = Subject(Refused(last.items_def.items)[k])
            /\ \A k \in DOMAIN scene :
                   defs[items[scene[k]].item_def] = Accepted(last.items_def.items)[k].item

\* a batch with a well formed definition after two that fail
C19_Reached ==
    /\ last.op = "add_items"
    /\ "items" \in DOMAIN last.items_def
    /\ Len(last.items_def.items) = 3
    /\ Len(last.fails_msg) = 2
    /\ last.items_def.items[3] = [item |-> CircleDef]
    /\ Len(scene) = 1

\* C20: an 'add <type>' for a type without a default definition, or without
\* metadata, does not fail: nothing is raised, no item is constructed, no
\* command is pushed, and the scene and the undo stack, with the commands
\* that can be redone, are as before.
C20_AddStep ==
    (/\ last'.op = "add"
     /\ \/ last'.item_type \notin DOMAIN Metadata
        \/ "default" \notin DOMAIN Metadata[last'.item_type])
    => /\ "raised" \notin DOMAIN last'
       /\ pushed' = pushed
       /\ UNCHANGED <<defs, items, scene, handles, undo_stack, undo_index>>

C20_AddWithoutDefault == [][C20_AddStep]_vars


\* C21: serialize() called a second time on the same item, with nothing in
\* between, returns the definition the first call returned and changes
\* neither the definitions nor the live items.
C21_SerializeStep ==
    (last.op = "serialize" /\ last'.op = "serialize" /\ last'.item = last.item)
        => /\ last'.returned = last.returned
           /\ defs' = defs
           /\ items' = items
           /\ scene' = scene

C21_SerializeIdempotent == [][C21_SerializeStep]_vars

\* A dragged item was serialized twice in a row.
C21_Reached ==
    /\ last.op = "serialize"
    /\ last.nth = 2
    /\ pushed + direct > 0


\* The geometry fields of a definition, per type.
GeometryKeys(d) ==
    CASE d.type = "circle" -> {"center", "radius"}
      [] d.type = "rectangle" -> {"center", "width", "height", "rotation"}
      [] OTHER -> {"start", "end"}

Geometry(d) == [k \in GeometryKeys(d) |-> d[k]]

\* C22: an item constructed from a valid definition D and serialized before
\* anything changes it returns the geometry fields of D, for every type.
C22_RoundTripStep ==
    (last.op = "init" /\ last'.op = "serialize")
        => Geometry(last'.returned) = Geometry(ItemDef(World, last'.item))

C22_RoundTripLossless == [][C22_RoundTripStep]_vars

\* The same, for every definition but a rectangle with a rotation.
C22_RoundTripStepUnrotated ==
    (last.op = "init" /\ last'.op = "serialize"
       /\ ~(ItemDef(World, last'.item).type = "rectangle"
            /\ ItemDef(World, last'.item).rotation # 0))
        => Geometry(last'.returned) = Geometry(ItemDef(World, last'.item))

C22_RoundTripUnrotated == [][C22_RoundTripStepUnrotated]_vars


\* A length in metres times the scale factor is the length in pixels.
InPixels(metres, pixels, item) == metres * item.scale_factor = pixels * MeterUnit

PointInPixels(point, pixel_point, item) ==
    /\ InPixels(point[1], pixel_point[1], item)
    /\ InPixels(point[2], pixel_point[2], item)

\* The definition d holds the live geometry of the item.
Reflects(d, item) ==
    CASE item.cls = "SceneCircle" ->
           /\ PointInPixels(d.center, RectCenter(item.circle), item)
           /\ InPixels(d.radius * 2, item.circle.w, item)
      [] item.cls = "SceneRectangle" ->
           /\ PointInPixels(d.center, RectMapToScene(item, RectCenter(item.rectangle)), item)
           /\ InPixels(d.width, item.rectangle.w, item)
           /\ InPixels(d.height, item.rectangle.h, item)
      [] OTHER ->
           /\ PointInPixels(d.start, item.line[1], item)
           /\ PointInPixels(d.end, item.line[2], item)

\* C23: the definition serialize() returns holds the item's current pixel
\* geometry divided by its scale factor, whatever translations, end point
\* changes and resizes came before.
C23_SerializeReflectsGeometry ==
    last.op = "serialize" => Reflects(last.returned, items[last.item])

\* An item was serialized after two drags.
C23_Reached == last.op = "serialize" /\ pushed >= 2 /\ last.nth = 1


\* (p3 - p1) x (p2 - p1), zero when the three points are in line
Cross(a, b, c) == (c[1] - a[1]) * (b[2] - a[2]) - (c[2] - a[2]) * (b[1] - a[1])

\* (p3 - p1) . (p2 - p1): the projection parameter u times |p2 - p1|^2
Dot(a, b, c) == (c[1] - a[1]) * (b[1] - a[1]) + (c[2] - a[2]) * (b[2] - a[2])

Between(x, a, b) == (a <= x /\ x <= b) \/ (b <= x /\ x <= a)

\* c lies on the closed segment [a, b]
OnSegment(a, b, c) ==
    /\ Cross(a, b, c) = 0
    /\ Between(c[1], a[1], b[1])
    /\ Between(c[2], a[2], b[2])

\* The projection parameter of c on [a, b] is defined and outside [0, 1].
OffSegment(a, b, c) ==
    /\ a # b
    /\ Dot(a, b, c) < 0 \/ Dot(a, b, c) > Dot(a, b, b)

\* C24: distance_to_segment returns the sentinel for every point whose
\* projection parameter is outside [0, 1], whatever the segment, end points
\* that nearly coincide included.
C24_SentinelOffSegment ==
    (last.op = "distance_to_segment" /\ OffSegment(last.p1, last.p2, last.p3))
        => last.d.sentinel

\* On segments whose end points are more than 0.01 pixel apart the result is
\* 0 on the closed segment, the perpendicular distance when the projection
\* parameter is in [0, 1] and the sentinel elsewhere; when the end points
\* coincide it is the distance to that point.
C24_DistanceOnProperSegments ==
    last.op = "distance_to_segment" =>
        LET a  == last.p1
            b  == last.p2
            c  == last.p3
            d  == last.d
            d2 == Dot(a, b, b)
        IN  IF d2 * SegmentPrecision >= last.unit * last.unit
            THEN /\ OnSegment(a, b, c) => (~d.sentinel /\ d.num = 0)
                 /\ OffSegment(a, b, c) <=> d.sentinel
                 /\ ~d.sentinel => d.num * d2 = Cross(a, b, c) * Cross(a, b, c) * d.den
            ELSE /\ ~d.sentinel
                 /\ d.num = Dot(c, a, a) * d.den


\* The segment [a, b] moved by k along the normal n.
Shifted(a, b, n, k) ==
    << <<a[1] + k * n[1], a[2] + k * n[2]>>, <<b[1] + k * n[1], b[2] + k * n[2]>> >>

\* C25: for an axis-aligned segment p1-p2, parallel_segments returns two
\* segments, the segment moved by the distance to one side and to the other
\* side of it, each from the side of p1 to the side of p2.
C25_ParallelAxisAligned ==
    (/\ last.op = "parallel_segments"
     /\ last.p1 # last.p2
     /\ last.p1[1] = last.p2[1] \/ last.p1[2] = last.p2[2])
        => LET n == IF last.p1[2] = last.p2[2] THEN <<0, 1>> ELSE <<1, 0>>
           IN  /\ Len(last.segments) = 2
               /\ { last.segments[1], last.segments[2] } =
                      { Shifted(last.p1, last.p2, n, last.distance),
                        Shifted(last.p1, last.p2, n, -last.distance) }

\* parallel_segments((0,0), (10,0), 1) returned the lines y = -1 and y = 1
\* over x in [0, 10].
C25_Reached ==
    /\ last.op = "parallel_segments"
    /\ last.p1 = <<0, 0>> /\ last.p2 = <<10, 0>> /\ last.distance = 1
    /\ last.segments = << << <<0, -1>>, <<10, -1>> >>, << <<0, 1>>, <<10, 1>> >> >>


\* Points around the centre c of a circle of radius r: the centre, points on
\* the circumference, and points one pixel inside and outside of it.
CirclePoints(c, r) ==
    { <<c[1] + o[1], c[2] + o[2]>> :
          o \in { <<0, 0>>, <<r, 0>>, <<-r, 0>>, <<0, r>>, <<0, -r>>,
                  <<r - 1, 0>>, <<r + 1, 0>>, <<0, 1 - r>>, <<0, -r - 1>>,
                  <<(3 * r) \div 5, (4 * r) \div 5>>,
                  <<(3 * r) \div 5, (4 * r) \div 5 - 1>>,
                  <<(3 * r) \div 5 + 1, (4 * r) \div 5>> } }

\* C26: a circle constructed with radius r metres has a pixel radius of r
\* times the scale factor, and at any time contains(p) holds exactly when p
\* is nearer to the current centre than the current pixel radius; a point on
\* the circumference is a miss.
C26_CircleHitTest ==
    \A id \in DOMAIN items :
        items[id].cls = "SceneCircle" =>
            LET item == items[id]
                c    == <<item.circle.x + item.circle.w \div 2,
                          item.circle.y + item.circle.h \div 2>>
                r    == item.circle.w \div 2
            IN  /\ pushed = 0 =>
                       radius_pixels(item) * MeterUnit = ItemDef(World, id).radius * item.scale_factor
                /\ radius_pixels(item) = r
                /\ \A p \in CirclePoints(c, r) \cup CursorPositions :
                       contains(item, p) <=> distance_in_pixels(c, p) < r
                /\ ~contains(item, <<c[1] + r, c[2]>>)
                /\ ~contains(item, <<c[1], c[2] - r>>)
                /\ r > 0 => contains(item, <<c[1] + r - 1, c[2]>>)

\* The circle was moved and resized, and its radius is a multiple of 5 pixels.
C26_Reached ==
    /\ pushed >= 2
    /\ items[1].circle.w # Loaded(ItemsDef(<<CircleDef>>)).items[1].circle.w
    /\ items[1].circle.x + items[1].circle.w \div 2
           # RectCenter(Loaded(ItemsDef(<<CircleDef>>)).items[1].circle)[1]
    /\ (items[1].circle.w \div 2) % 5 = 0
    /\ ~contains(items[1], <<items[1].circle.x + items[1].circle.w \div 2
                                 + (3 * (items[1].circle.w \div 2)) \div 5,
                             items[1].circle.y + items[1].circle.h \div 2
                                 + (4 * (items[1].circle.w \div 2)) \div 5>>)


\* C27: a position change of the handle H that holds the mouse leaves H as
\* the only handle in the scene, and H stays until the release; from the
\* first drag step to the release the scene holds exactly one handle.
C27_DragStep ==
    /\ (last'.op = "drag" /\ grabbed # 0)
           => /\ Len(handles') = 1
              /\ grabbed' = 1
              /\ handles'[1].kind = handles[grabbed].kind
              /\ handles'[1].parent = handles[grabbed].parent
              /\ handles'[1].is_start = handles[grabbed].is_start
    /\ (last.op = "drag" /\ last'.op # "drag")
           => /\ Len(handles) = 1
              /\ last'.op = "release"

C27_OneHandleWhileDragging == [][C27_DragStep]_vars

\* Second drag step of a handle, after two items were clicked.
C27_Reached ==
    /\ last.op = "drag"
    /\ presses = 2
    /\ pushed = 2
    /\ Len(handles) = 1
    /\ grabbed = 1


\* C28: whichever way a shape left the scene, its handles left with it: every
\* handle in the scene belongs to a shape that is in the scene.
C28_NoHandleWithoutShape ==
    \A h \in DOMAIN handles : InScene(World, handles[h].parent)

\* The same, for shapes removed by a RemoveItemCommand.
C28_RemoveStep ==
    (last'.op \in {"delete", "redo"} /\ last'.ran # 0
       /\ undo_stack'[last'.ran].kind = "RemoveItem")
        => handles' = <<>>

C28_RemoveItemRemovesHandles == [][C28_RemoveStep]_vars


\* The end point a rotate handle leaves alone, and the point it is dragged to.
Pivot(h, item) == IF h.is_start THEN item.line[2] ELSE item.line[1]

DraggedTo(h, new_position) == <<h.anchor[1] + new_position[1], h.anchor[2] + new_position[2]>>

\* The step moves a rotate handle.
RotateStep == grabbed # 0 /\ last'.op = "drag" /\ handles[grabbed].kind = "Rotate"

\* The line of the handle h keeps its pivot and, to the pixel, its length.
RigidRotation(h) ==
    /\ Pivot(h, items'[h.parent]) = Pivot(h, items[h.parent])
    /\ Abs(length_in_pixels(items'[h.parent]) - length_in_pixels(items[h.parent])) <= 1

\* C29: a drag step of a RotateHandle to any position leaves the other end
\* point where it was and the length of the line as it was, also when the
\* handle is dragged onto the pivot or level with it.
C29_RotateStep == RotateStep => RigidRotation(handles[grabbed])

C29_RotateIsRigid == [][C29_RotateStep]_vars

\* The same, for every position but the pivot itself.
C29_RotateStepOffPivot ==
    (RotateStep /\ DraggedTo(handles[grabbed], handles'[1].pos)
                       # Pivot(handles[grabbed], items[handles[grabbed].parent]))
        => RigidRotation(handles[grabbed])

C29_RotateIsRigidOffPivot == [][C29_RotateStepOffPivot]_vars


\* The end point a handle of an end point moves, and the one it leaves alone.
Selected(h, item) == IF h.is_start THEN item.line[1] ELSE item.line[2]

\* The step moves a handle of an end point.
EndPointStep == grabbed # 0 /\ last'.op = "drag" /\ handles[grabbed].kind = "ChangeEndPoint"

\* e is the foot of the perpendicular from v on the line through a and b, to
\* the pixel: in line with a and b, and v - e at a right angle to b - a.
ProjectionOf(e, v, a, b) ==
    LET slack == Abs(b[1] - a[1]) + Abs(b[2] - a[2])
    IN  /\ Abs(Cross(a, b, e)) <= slack
        /\ Abs((v[1] - e[1]) * (b[1] - a[1]) + (v[2] - e[2]) * (b[2] - a[2])) <= slack

\* C30: a drag step of a ChangeEndPointHandle puts the selected end point on
\* the projection of the dragged point on the line through the two current
\* end points, beyond them or not, and leaves the other end point alone.
C30_EndPointStep ==
    EndPointStep =>
        LET h == handles[grabbed]
            a == items[h.parent].line[1]
            b == items[h.parent].line[2]
            e == Selected(h, items'[h.parent])
            v == DraggedTo(h, handles'[1].pos)
        IN  /\ Pivot(h, items'[h.parent]) = Pivot(h, items[h.parent])
            /\ IF a = b THEN e = a ELSE ProjectionOf(e, v, a, b)

C30_EndPointProjected == [][C30_EndPointStep]_vars

\* An end point of a line that was turned before was dragged beyond the
\* segment: the line is longer than any line of the loaded scenes.
C30_Reached ==
    /\ last.op = "drag"
    /\ handles[1].kind = "ChangeEndPoint"
    /\ direct >= 1
    /\ items[handles[1].parent].line[1][1] # items[handles[1].parent].line[2][1]
    /\ items[handles[1].parent].line[1][2] # items[handles[1].parent].line[2][2]
    /\ length_in_pixels(items[handles[1].parent]) > 45


\* Where the shape of a handle is in the scene: the position of its child in
\* the handle, moved by the position of the handle.
HandleScenePos(h) == <<h.pos[1] + h.anchor[1], h.pos[2] + h.anchor[2]>>

\* Where the pointer that drags the handle h is: where the child of h was
\* when h was made, moved by the position of the handle.
PointerPos(h) == <<h.made_at[1] + h.pos[1], h.made_at[2] + h.pos[2]>>

\* The step moves the size handle of a circle.
SizeStep == grabbed # 0 /\ last'.op = "drag" /\ handles[grabbed].kind = "ChangeSize"

\* C31: after a drag step of a ChangeSizeHandle the pixel radius of the circle
\* is the distance from its centre to the place of the handle in the scene,
\* be it the handle's shape or the pointer that holds it, and the centre is
\* where it was.
C31_SizeStep ==
    SizeStep =>
        LET id == handles[grabbed].parent
            c  == RectCenter(items'[id].circle)
        IN  /\ c = RectCenter(items[id].circle)
            /\ \/ radius_pixels(items'[id]) = distance_in_pixels(c, HandleScenePos(handles'[1]))
               \/ radius_pixels(items'[id]) = distance_in_pixels(c, PointerPos(handles'[1]))

C31_RadiusFollowsHandle == [][C31_SizeStep]_vars

\* What holds: the radius is the distance from the centre to the position of
\* the handle's child inside the handle, and the centre is where it was.
C31_SizeStepChild ==
    SizeStep =>
        LET id == handles[grabbed].parent
            c  == RectCenter(items'[id].circle)
        IN  /\ c = RectCenter(items[id].circle)
            /\ radius_pixels(items'[id]) = distance_in_pixels(c, handles'[1].anchor)

C31_RadiusFollowsChild == [][C31_SizeStepChild]_vars


\* The border b is the line l moved by an offset of length w2 at a right
\* angle to l, to the pixel.
BorderOffset(b, l) == <<b[1][1] - l[1][1], b[1][2] - l[1][2]>>

ParallelAt(b, l, w2) ==
    LET o   == BorderOffset(b, l)
        o2  == <<b[2][1] - l[2][1], b[2][2] - l[2][2]>>
        dir == <<l[2][1] - l[1][1], l[2][2] - l[1][2]>>
    IN  /\ Abs(o[1] - o2[1]) <= 1 /\ Abs(o[2] - o2[2]) <= 1
        /\ Abs(Sqrt(o[1] * o[1] + o[2] * o[2]) - w2) <= 1
        /\ Abs(o[1] * dir[1] + o[2] * dir[2]) <= Abs(dir[1]) + Abs(dir[2])

\* The corridor's borders are the two parallels of its line, one on each
\* side, and its centre line is its line.
BordersFollow(item) ==
    /\ item.center_line = item.line
    /\ ParallelAt(item.border1, item.line, item.corridor_width \div 2)
    /\ ParallelAt(item.border2, item.line, item.corridor_width \div 2)
    /\ Abs(BorderOffset(item.border1, item.line)[1]
             + BorderOffset(item.border2, item.line)[1]) <= 1
    /\ Abs(BorderOffset(item.border1, item.line)[2]
             + BorderOffset(item.border2, item.line)[2]) <= 1

\* C32: in every state the borders of every corridor are the parallels of
\* its current line at half the corridor width on either side, and its centre
\* line is its current line, whatever its definition sets.
C32_BordersFollowLine ==
    \A id \in DOMAIN items : items[id].cls = "SceneCorridor" => BordersFollow(items[id])

\* The same, for the corridors whose definition sets show_borders.
C32_ShownBordersFollowLine ==
    \A id \in DOMAIN items :
        (items[id].cls = "SceneCorridor" /\ Get(ItemDef(World, id), "show_borders", FALSE))
            => BordersFollow(items[id])


\* ---- C33 ----------------------------------------------------------------
\* the shapes of the scene that hold the definition object of another shape
SharesDefinition(a, b) ==
    /\ a # b
    /\ items[a].item_def = items[b].item_def

\* the default definitions of the metadata are as the loader left them
DefaultsUntouched ==
    \A i \in 1..Len(DefaultDefs) : defs[i] = DefaultDefs[i]

\* C33: no two shapes of the scene share one definition mapping, whatever path
\* added them (so that serializing or editing one cannot change the other's).
C33_NoSharedDefinition ==
    \A i \in DOMAIN scene, j \in DOMAIN scene : ~SharesDefinition(scene[i], scene[j])

\* What holds: a shape made by the batch add or by a paste owns its definition;
\* no shape of the scene shares it.
C33_LoadedAndPastedOwnDefinition ==
    \A i \in DOMAIN scene, j \in DOMAIN scene :
        SharesDefinition(scene[i], scene[j])
            => items[scene[i]].item_def \in 1..Len(DefaultDefs)


\* ---- C34 ----------------------------------------------------------------
\* a step that is an edit whose dialog was cancelled
CancelledEditStep ==
    /\ last'.op = "edit"
    /\ last' # last \/ undo_stack' # undo_stack
    /\ IsNone(last'.changed)

\* C34: an edit whose dialog is cancelled raises no error and leaves the
\* definitions, the shapes' live state and the scene as they were.
C34_Step ==
    CancelledEditStep
    => /\ "raised" \notin DOMAIN last'
       /\ defs' = defs
       /\ items' = items
       /\ scene' = scene

C34_CancelledEditIsNoOp == [][C34_Step]_vars

\* What holds: the cancelled edit changes no definition, no shape and not the
\* scene; it does record a command.
C34_StepKeeps ==
    CancelledEditStep
    => /\ defs' = defs
       /\ items' = items
       /\ scene' = scene
       /\ Len(undo_stack') = undo_index + 1

C34_CancelledEditKeepsShapes == [][C34_StepKeeps]_vars


\* ---- C35 ----------------------------------------------------------------
\* the item the first redo() of the paste c constructed
FirstPasted(c) == Len(c.first.items)

\* the state follows the redo (Ctrl+Y) of a paste that was undone
PasteRedone ==
    /\ last.op = "redo"
    /\ last.ran # 0
    /\ undo_stack[last.ran].kind = "CopyPaste"

\* C35: a paste that is undone and redone gives the shape it gave at first:
\* the item in the scene after the redo serializes to the definition of the
\* item the command's first redo() made, whatever was done to the copied item
\* without a command in between, and it is the only item of that paste in the
\* scene.
C35_PasteReplays ==
    PasteRedone
    => LET c == undo_stack[last.ran]
       IN  /\ InScene(World, c.new_item)
           /\ c.new_item # FirstPasted(c) => ~InScene(World, FirstPasted(c))
           /\ Serialized(World, c.new_item) = Serialized(c.first, FirstPasted(c))

\* What holds: the redone paste gives the shape of the first paste when the
\* copied item is as it was at the first paste.
C35_PasteReplaysUntouchedSource ==
    PasteRedone
    => LET c == undo_stack[last.ran]
       IN  /\ InScene(World, c.new_item)
           /\ c.new_item # FirstPasted(c) => ~InScene(World, FirstPasted(c))
           /\ items[c.item] = c.first.items[c.item]
              => Serialized(World, c.new_item) = Serialized(c.first, FirstPasted(c))


\* ---- C36 ----------------------------------------------------------------
\* the kinds of the commands of a stack, in order
Kinds(stack) == [i \in DOMAIN stack |-> stack[i].kind]

\* C36: a paste with an empty copy buffer changes nothing: no command is
\* pushed, the undone commands stay redo-able, and the scene, the items and
\* the definitions are as before. A paste with an item in the buffer pushes
\* exactly one command, a CopyPasteCommand on top of the commands done, and
\* adds exactly one item, a new one, to the scene.
C36_PasteStep ==
    last'.op = "paste"
    => IF copy_buffer = 0
       THEN /\ undo_stack' = undo_stack
            /\ undo_index' = undo_index
            /\ scene' = scene
            /\ items' = items
            /\ defs' = defs
            /\ last'.ran = 0
       ELSE /\ undo_index' = undo_index + 1
            /\ Len(undo_stack') = undo_index'
            /\ Kinds(undo_stack') = Append(Kinds(SubSeq(undo_stack, 1, undo_index)),
                                            "CopyPaste")
            /\ Len(items') = Len(items) + 1
            /\ scene' = Append(scene, Len(items'))
            /\ \A id \in DOMAIN items : items'[id] = items[id]

====
